---- MODULE Spec2Model ----
(***************************************************************************)
(* A model of the Pixera countdown backend (src/pixera_backend/main.py):   *)
(* the countdown parser, the JSON-RPC protocol client, the data fetchers,   *)
(* the polling scheduler with its enable / disable / auto-disable state     *)
(* machine, and the WebSocket broadcast hub.                                *)
(*                                                                          *)
(* The backend is one asyncio event loop: the code between two awaits runs  *)
(* without interleaving.  Every action below is therefore one resumption of *)
(* one task, run up to the next await of that task.                         *)
(***************************************************************************)
EXTENDS Integers, Sequences, FiniteSets, TLC

\* ------------------------------------------------------------------------
\* Python values
\* ------------------------------------------------------------------------
\* Optional values: None is the empty sequence, a value x is <<x>>.
None == <<>>
Some(x) == <<x>>

\* Strings are sequences of one-character strings.
Digit == {"0", "1", "2", "3", "4", "5", "6", "7", "8", "9"}

DigitVal(c) ==
    CASE c = "0" -> 0 [] c = "1" -> 1 [] c = "2" -> 2 [] c = "3" -> 3
      [] c = "4" -> 4 [] c = "5" -> 5 [] c = "6" -> 6 [] c = "7" -> 7
      [] c = "8" -> 8 [] c = "9" -> 9 [] OTHER -> 0

\* A value read from a decoded JSON object with .get(): absent / null (None),
\* a string, or a number.
PyNone == [kind |-> "none", s |-> <<>>, n |-> 0]
PyStr(s) == [kind |-> "str", s |-> s, n |-> 0]
PyInt(n) == [kind |-> "int", s |-> <<>>, n |-> n]

\* Python truthiness of such a value ("if x", "not x", "x or y").
Truthy(v) ==
    CASE v.kind = "none" -> FALSE
      [] v.kind = "str" -> v.s # <<>>
      [] OTHER -> v.n # 0

RECURSIVE LStripChars(_, _)
LStripChars(s, cs) ==
    IF s # <<>> /\ Head(s) \in cs THEN LStripChars(Tail(s), cs) ELSE s

RECURSIVE RStripChars(_, _)
RStripChars(s, cs) ==
    IF s # <<>> /\ s[Len(s)] \in cs
    THEN RStripChars(SubSeq(s, 1, Len(s) - 1), cs)
    ELSE s

\* str.strip(): whitespace off both ends.
Strip(s) == RStripChars(LStripChars(s, {" "}), {" "})

\* str.split(sep): the pieces between the separators (always at least one).
RECURSIVE SplitAcc(_, _, _)
SplitAcc(s, sep, cur) ==
    IF s = <<>> THEN <<cur>>
    ELSE IF Head(s) = sep THEN <<cur>> \o SplitAcc(Tail(s), sep, <<>>)
    ELSE SplitAcc(Tail(s), sep, Append(cur, Head(s)))

Split(s, sep) == SplitAcc(s, sep, <<>>)

RECURSIVE DigitsValue(_, _)
DigitsValue(s, acc) ==
    IF s = <<>> THEN acc ELSE DigitsValue(Tail(s), acc * 10 + DigitVal(Head(s)))

\* int(s): surrounding whitespace, an optional sign, then one or more
\* digits; anything else is a ValueError (ok = FALSE).
IntSigned(t) == t # <<>> /\ Head(t) \in {"-", "+"}

IntDigits(t) == IF IntSigned(t) THEN Tail(t) ELSE t

IntOfStripped(t) ==
    IF IntDigits(t) = <<>> \/ \E i \in 1..Len(IntDigits(t)) : IntDigits(t)[i] \notin Digit
    THEN [ok |-> FALSE, v |-> 0]
    ELSE [ok |-> TRUE,
          v |-> IF IntSigned(t) /\ Head(t) = "-"
                THEN -DigitsValue(IntDigits(t), 0)
                ELSE DigitsValue(IntDigits(t), 0)]

PyIntParse(s) == IntOfStripped(Strip(s))

\* int(x) of a float: truncation toward zero, for a quotient p / q, q > 0.
TruncDiv(p, q) == IF p >= 0 THEN p \div q ELSE -((-p) \div q)

\* ------------------------------------------------------------------------
\* Countdown parser
\* ------------------------------------------------------------------------
fps == 60

ZeroCountdown ==
    [raw |-> <<>>, hours |-> 0, minutes |-> 0, seconds |-> 0, frames |-> 0,
     totalMs |-> 0]

\* Line 102: int((frames / fps) * 1000), computed in double precision.  For
\* the frame counts of up to three digits the product is the exact quotient
\* frames * 1000 / fps rounded to a double that truncates to the quotient's
\* integer part, except for 969 frames: 969 / 60 is rounded down to
\* 16.149999999999998..., and the product truncates to 16149, not 16150.
FrameMs(f) ==
    IF f = 969 THEN 16149
    ELSE IF f = -969 THEN -16149
    ELSE TruncDiv(f * 1000, fps)

\* Lines 98-103.
TotalMs(h, m, s, f) ==
    h * 3600 * 1000 + m * 60 * 1000 + s * 1000 + FrameMs(f)

\* Lines 95-115: the four fields converted; a ValueError of int() is caught
\* and gives the zero countdown.
ParsedFields(raw_s, is_negative, h, m, s, f) ==
    IF ~(h.ok /\ m.ok /\ s.ok /\ f.ok) THEN ZeroCountdown
    ELSE [raw |-> raw_s,
          hours |-> IF is_negative THEN -h.v ELSE h.v,
          minutes |-> m.v,
          seconds |-> s.v,
          frames |-> f.v,
          totalMs |-> IF is_negative THEN -TotalMs(h.v, m.v, s.v, f.v)
                      ELSE TotalMs(h.v, m.v, s.v, f.v)]

\* Lines 91-93: anything but four parts gives the zero countdown.
ParsedParts(raw_s, is_negative, parts) ==
    IF Len(parts) # 4 THEN ZeroCountdown
    ELSE ParsedFields(raw_s, is_negative, PyIntParse(parts[1]),
                      PyIntParse(parts[2]), PyIntParse(parts[3]),
                      PyIntParse(parts[4]))

\* Lines 87-90: the sign is read from the stripped text and the leading "-"
\* dropped from the text as it came.
ParsedSigned(raw_s, is_negative) ==
    ParsedParts(raw_s, is_negative,
                Split(IF is_negative THEN LStripChars(raw_s, {"-"}) ELSE raw_s, ":"))

IsNegative(stripped) == stripped # <<>> /\ Head(stripped) = "-"

\* parse_countdown_string(raw).  raised: the TypeError of '":" not in raw' on
\* a non-zero number, which is outside the function's try block.
parse_countdown_string(raw) ==
    IF ~Truthy(raw) THEN [raised |-> FALSE, cd |-> ZeroCountdown]
    ELSE IF raw.kind # "str" THEN [raised |-> TRUE, cd |-> ZeroCountdown]
    ELSE IF \A i \in 1..Len(raw.s) : raw.s[i] # ":"
    THEN [raised |-> FALSE, cd |-> ZeroCountdown]
    ELSE [raised |-> FALSE,
          cd |-> ParsedSigned(raw.s, IsNegative(Strip(raw.s)))]

\* ------------------------------------------------------------------------
\* Engine replies, as send_json returns them
\* ------------------------------------------------------------------------
\* A decoded reply is a JSON value.  top says whether it is an object (the
\* only shape with .get) and kind what its "result" member is:
\*   "absent"  no "result" member (the {} of a failed call has none)
\*   "null"    result is null
\*   "num"     result is a non-zero number
\*   "str"     result is a string (for the info and cue calls: JSON text)
\*   "list"    result is a list
\* text says, for a string result, what the text decodes to: "bad" (not
\* JSON), "obj", "list" or "num".

\* The {} that send_json returns when the call failed.
EmptyMapping ==
    [top |-> "obj", kind |-> "absent", text |-> "bad", handles |-> <<>>,
     cues |-> <<>>, name |-> "", Mode |-> ""]

\* What one call to the engine comes to: status "ok" with the decoded reply,
\* or one of the failures send_json catches.
CallFailures == {"connect_error", "io_error", "timeout", "bad_json"}

\* send_json's return value for an outcome of the call (lines 248-263).
send_json(outcome) ==
    IF outcome.status = "ok" THEN outcome.value ELSE EmptyMapping

Failed(status) == [status |-> status, value |-> EmptyMapping]
Ok(value) == [status |-> "ok", value |-> value]

\* result.get("result", default) raises AttributeError unless the reply is a
\* JSON object.
GetRaises(ret) == ret.top # "obj"

\* ------------------------------------------------------------------------
\* Data fetchers: the synchronous part that follows each reply
\* ------------------------------------------------------------------------
\* get_project_name (lines 347-351): status.projectName becomes
\* result.get("result", "Unknown").
\* A result that is no string (null, a number) is stored as it is: "None"
\* stands for any such value.
project_name_of(ret) ==
    IF ret.kind = "str" THEN ret.name
    ELSE IF ret.kind = "absent" THEN "Unknown"
    ELSE "None"

\* get_timelines, first reply (lines 267-271): the handles to iterate, or the
\* exception of .get on a non-object / of iterating a non-iterable (null, a
\* number).  A string result, which Python would iterate character by
\* character, is not among the replies of this model.
timelines_listed(ret) ==
    IF GetRaises(ret) THEN [raised |-> TRUE, handles |-> <<>>]
    ELSE IF ret.kind = "absent" THEN [raised |-> FALSE, handles |-> <<>>]
    ELSE IF ret.kind = "list" THEN [raised |-> FALSE, handles |-> ret.handles]
    ELSE [raised |-> TRUE, handles |-> <<>>]

\* get_timelines, one info reply (lines 272-278): info_json, where every
\* exception of the .get and of json.loads is caught and gives {}.
EmptyInfo == [kind |-> "obj", name |-> "", Mode |-> ""]

info_json_of(ret) ==
    IF GetRaises(ret) THEN EmptyInfo
    ELSE IF ret.kind = "absent" THEN EmptyInfo
    ELSE IF ret.kind # "str" THEN EmptyInfo
    ELSE IF ret.text = "obj" THEN [kind |-> "obj", name |-> ret.name, Mode |-> ret.Mode]
    ELSE IF ret.text = "bad" THEN EmptyInfo
    ELSE [kind |-> "nonobj", name |-> "", Mode |-> ""]

NewTimeline(info) == [info |-> info, cues |-> <<>>]

\* The substitution without the clamp of lines 321-326.
countdown_parsed_unclamped(cue, cd, td) ==
    IF cd.totalMs < 0 /\ Truthy(cue.time) /\ td.totalMs >= 0
    THEN [td EXCEPT !.raw = cue.countdown.s]
    ELSE cd

\* Lines 313-326: a negative countdown is replaced by the time field's value
\* if there is one that is not negative, and set to zero otherwise.
countdown_parsed(cue, cd, td) ==
    IF cd.totalMs < 0
    THEN IF Truthy(cue.time) /\ td.totalMs >= 0
         THEN [td EXCEPT !.raw = cue.countdown.s]
         ELSE [cd EXCEPT !.totalMs = 0, !.hours = 0, !.minutes = 0,
                         !.seconds = 0, !.frames = 0]
    ELSE cd

\* The stored value with _original_countdown_ms read after the substitution.
cue_entry_substituted(cue, cp, tp) ==
    IF cp.raised \/ tp.raised THEN [raised |-> TRUE]
    ELSE [raised |-> FALSE,
          key |-> IF cue.name # "" THEN cue.name ELSE cue.handle,
          val |-> [name |-> cue.name, handle |-> cue.handle,
                   operation |-> cue.operation, note |-> cue.note,
                   time |-> cue.time,
                   countdown |-> countdown_parsed(cue, cp.cd, tp.cd),
                   original_countdown_ms |->
                       countdown_parsed(cue, cp.cd, tp.cd).totalMs,
                   original_time_ms |-> IF Truthy(cue.time)
                                        THEN Some(tp.cd.totalMs) ELSE None]]

\* Lines 328-338: the key and the stored value of one cue.
cue_entry(cue, cp, tp) ==
    IF cp.raised \/ tp.raised THEN [raised |-> TRUE]
    ELSE [raised |-> FALSE,
          key |-> IF cue.name # "" THEN cue.name ELSE cue.handle,
          val |-> [name |-> cue.name, handle |-> cue.handle,
                   operation |-> cue.operation, note |-> cue.note,
                   time |-> cue.time,
                   countdown |-> countdown_parsed(cue, cp.cd, tp.cd),
                   original_countdown_ms |-> cp.cd.totalMs,
                   original_time_ms |-> IF Truthy(cue.time)
                                        THEN Some(tp.cd.totalMs) ELSE None]]

\* One cue record of the engine's list, as get_cues stores it (lines
\* 303-338).  raised: cue.get on a record that is no object, or the parser's
\* TypeError.  The time field is parsed only if it is truthy, and the parser
\* returns the zero countdown for a value that is not.
store_cue(cue) ==
    IF cue.kind # "obj" THEN [raised |-> TRUE]
    ELSE cue_entry(cue, parse_countdown_string(cue.countdown),
                   parse_countdown_string(cue.time))

\* The dictionary cue_data of get_cues: a sequence of <<key, value>> pairs in
\* insertion order, a repeated key keeping its first place and its last value.
DictKeys(d) == {d[i][1] : i \in 1..Len(d)}

DictPut(d, k, v) ==
    IF k \in DictKeys(d)
    THEN [i \in 1..Len(d) |-> IF d[i][1] = k THEN <<k, v>> ELSE d[i]]
    ELSE Append(d, <<k, v>>)

DictGet(d, k) == d[CHOOSE i \in 1..Len(d) : d[i][1] = k][2]

RECURSIVE cue_data_of(_, _)
cue_data_put(c, rest, acc) ==
    IF c.raised THEN [raised |-> TRUE, cue_data |-> <<>>]
    ELSE cue_data_of(rest, DictPut(acc, c.key, c.val))

cue_data_of(info_json, acc) ==
    IF info_json = <<>> THEN [raised |-> FALSE, cue_data |-> acc]
    ELSE cue_data_put(store_cue(Head(info_json)), Tail(info_json), acc)

\* get_cues, lines 290-300: the list of cue records in the reply (a list, or
\* JSON text of a list; anything else counts as no cues).
cue_list_of(ret) ==
    IF ret.kind = "list" THEN ret.cues
    ELSE IF ret.kind = "str" /\ ret.text = "list" THEN ret.cues
    ELSE <<>>

\* A get_cues without the test of line 341 would store the cues of a handle
\* that is not in the mapping under a new entry.
cues_put_always(r, timeline_handle, timelines) ==
    IF r.raised THEN [raised |-> TRUE, timelines |-> timelines]
    ELSE IF timeline_handle \in DictKeys(timelines)
    THEN [raised |-> FALSE,
          timelines |-> DictPut(timelines, timeline_handle,
               [DictGet(timelines, timeline_handle) EXCEPT !.cues = r.cue_data])]
    ELSE [raised |-> FALSE,
          timelines |-> DictPut(timelines, timeline_handle,
               [info |-> EmptyInfo, cues |-> r.cue_data])]

\* get_cues after its reply (lines 288-342): the timelines mapping with the
\* cues of timeline_handle replaced, if that handle is still in the mapping.
cues_put(r, timeline_handle, timelines) ==
    IF r.raised THEN [raised |-> TRUE, timelines |-> timelines]
    ELSE IF timeline_handle \in DictKeys(timelines)
    THEN [raised |-> FALSE,
          timelines |-> DictPut(timelines, timeline_handle,
               [DictGet(timelines, timeline_handle) EXCEPT !.cues = r.cue_data])]
    ELSE [raised |-> FALSE, timelines |-> timelines]

cues_stored(ret, timeline_handle, timelines) ==
    IF GetRaises(ret) THEN [raised |-> TRUE, timelines |-> timelines]
    ELSE cues_put(cue_data_of(cue_list_of(ret), <<>>), timeline_handle, timelines)

\* ------------------------------------------------------------------------
\* Payloads
\* ------------------------------------------------------------------------
DefaultTimelineName(h) ==
    CASE h = 1 -> "Timeline_1" [] h = 2 -> "Timeline_2" [] OTHER -> "Timeline_n"

\* One record of the payload's countdowns list (lines 158-171).
CountdownRecord(tl_handle, info, cue_handle, cue_data) ==
    [id |-> <<tl_handle, cue_handle>>,
     timelineName |-> IF info.name = "" THEN DefaultTimelineName(tl_handle) ELSE info.name,
     timelineMode |-> IF info.Mode = "" THEN "BAD" ELSE info.Mode,
     cueName |-> cue_handle,
     cueType |-> cue_data.operation,
     note |-> cue_data.note,
     rawCount |-> cue_data.countdown.raw,
     hours |-> cue_data.countdown.hours,
     minutes |-> cue_data.countdown.minutes,
     seconds |-> cue_data.countdown.seconds,
     frames |-> cue_data.countdown.frames,
     totalMs |-> cue_data.countdown.totalMs]

\* A builder without the filter of line 149 would skip no cue.
SkipCue_none(cue_data) == FALSE

\* A filter on the stored countdown instead of the original one.
SkipCue_stored(cue_data) == cue_data.countdown.totalMs < 0

\* The filter of line 149.
SkipCue(cue_data) == cue_data.original_countdown_ms < 0

\* The inner loop over one timeline's cues (lines 143-171).
RECURSIVE CueRecords(_, _, _)
CueRecords(tl_handle, info, cues) ==
    IF cues = <<>> THEN <<>>
    ELSE IF SkipCue(Head(cues)[2]) THEN CueRecords(tl_handle, info, Tail(cues))
    ELSE <<CountdownRecord(tl_handle, info, Head(cues)[1], Head(cues)[2])>>
         \o CueRecords(tl_handle, info, Tail(cues))

\* The outer loop (lines 131-141).
RECURSIVE TimelineRecords(_)
TimelineRecords(timelines) ==
    IF timelines = <<>> THEN <<>>
    ELSE CueRecords(Head(timelines)[1], Head(timelines)[2].info,
                    Head(timelines)[2].cues)
         \o TimelineRecords(Tail(timelines))

\* info.get on timeline info that is JSON but no object raises
\* AttributeError (line 136).
PayloadRaises(timelines) ==
    \E i \in 1..Len(timelines) : timelines[i][2].info.kind # "obj"

\* buildCountdownPayload (lines 121-178).  The payload has no "type" member;
\* type "snapshot" stands for that, so that the two payloads are records of
\* one shape.
buildCountdownPayload(timelines, project_name, polling_state) ==
    [type |-> "snapshot",
     projectName |-> project_name,
     countdowns |-> TimelineRecords(timelines),
     polling |-> polling_state]

\* The payload of broadcast_polling_state (lines 216-219), which has the
\* members "type" and "polling" only: projectName and countdowns are fillers.
PollingPayload(polling_state) ==
    [type |-> "polling_state",
     projectName |-> "",
     countdowns |-> <<>>,
     polling |-> polling_state]

\* ------------------------------------------------------------------------
\* Program constants and the bounds of the model
\* ------------------------------------------------------------------------
\* Times are in seconds.  The auto-disable delay, 6 * 3600 (lines 399, 477).
AUTO_DISABLE_DELAY == 21600
\* PROJECT_TIMELINE_INTERVAL (line 362).
PROJECT_TIMELINE_INTERVAL == 10

\* The clock is followed for MaxTicks steps of the auto-disable delay.
MaxTicks == 1
MaxTime == MaxTicks * AUTO_DISABLE_DELAY
\* request_id (line 48) is followed up to MaxRequestId, and in the runs of
\* kind "ids", which stop there, up to MaxIssued.
MaxRequestId == 3
MaxIssued == 12
\* The polling loops created one after the other are counted in the runs of
\* kind "restart", up to MaxLoops.
MaxLoops == 3

\* WebSocket connections, HTTP requests in flight and auto-disable tasks.
Viewers == {"v1", "v2"}
ViewerOrder == <<"v1", "v2">>
ReqIds == {"r1", "r2"}
TimerIds == {"t1", "t2"}
\* The task objects polling_loop can run in: "loop", and a second one for a
\* polling loop created while the first has not ended.
LoopIds == {"loop", "loop2"}
TaskIds == {"life"} \cup LoopIds \cup ReqIds \cup TimerIds \cup Viewers

VARIABLES
    timelines,          \* shared_data["timelines"]: handle -> [info, cues]
    status,             \* shared_data["status"].get("projectName"), or None
    polling,            \* shared_data["polling"]
    connected_clients,  \* the set connected_clients
    request_id,         \* the global request_id
    auto_disable_task,  \* the global auto_disable_task: None or a task
    tasks,              \* every coroutine: its place and its local variables
    now,                \* time.time()
    alive,              \* the viewers whose connection still carries a send
    engine,             \* which replies the engine gives in this run
    call,               \* one call of send_json, followed on the wire
    probe,              \* one call of the parser or of the cue conversion
    data_lock,          \* data_lock: None, or the coroutine that holds it
    unlocked_writes,    \* the members of shared_data that were assigned
                        \* without data_lock held (history, read by no code)
    polling_task        \* the global polling_task: None or a task

vars == <<timelines, status, polling, connected_clients, request_id,
          auto_disable_task, tasks, now, alive, engine, call, probe,
          data_lock, unlocked_writes, polling_task>>

PollingOff == [enabled |-> FALSE, enabled_at |-> None, auto_disable_at |-> None]

NoPayload ==
    [type |-> "none", projectName |-> "", countdowns |-> <<>>, polling |-> PollingOff]

NoResponse == [status |-> "", polling |-> PollingOff]

\* A coroutine.  pc is the await it is suspended in (or where it ended);
\* the other fields are its local variables:
\*   todo       the handles still to go in the loop over handles
\*   listed     the list "timelines" of get_timelines, as the engine gave it
\*   id         the "id" of the request of the coroutine's latest engine call
\*   clean      the dict get_timelines builds
\*   targets    what is left of connected_clients.copy() in a broadcast
\*   to_remove  the list to_remove of a broadcast
\*   text       the serialized payload of a broadcast
\*   last, cur  last_project_timeline_fetch and current_time of polling_loop;
\*              for an auto-disable task, last is when its sleep ends
\*   resp       the response an HTTP handler returned
\*   sent       the viewers a broadcast has delivered to so far
\*   before     for a force_update request, the timelines mapping as it was
\*              when the request came in (history, read by no code)
\* A local variable is kept only while the code can still read it.
FreeTask ==
    [kind |-> "free", pc |-> "free", todo |-> <<>>, clean |-> <<>>,
     targets |-> <<>>, to_remove |-> {}, text |-> NoPayload, last |-> 0,
     cur |-> 0, resp |-> NoResponse, sent |-> {}, before |-> <<>>,
     log |-> <<>>, listed |-> <<>>, id |-> 0, instance |-> 0]

NewTask(kind, pc) == [FreeTask EXCEPT !.kind = kind, !.pc = pc]

\* The places a coroutine can be suspended in, or have ended in.
Suspended ==
    {"free", "start", "w_project", "w_timelines", "w_info", "w_cues",
     "w_send_p", "w_send_u", "w_sleep", "w_timer", "serving", "done",
     "raised", "cancelled", "w_accept", "w_init", "w_hb", "closed",
     "blocked"}

\* task.done(): the coroutine returned, raised or was cancelled.
Finished == {"done", "raised", "cancelled", "closed"}

ProjectNameOf(st) == IF st = None THEN "Unknown" ELSE st[1]

\* The whole of the program's state, for the code that runs between awaits.
State ==
    [timelines |-> timelines, status |-> status, polling |-> polling,
     connected_clients |-> connected_clients, request_id |-> request_id,
     auto_disable_task |-> auto_disable_task, tasks |-> tasks,
     data_lock |-> data_lock, unlocked_writes |-> unlocked_writes,
     polling_task |-> polling_task]

Goto(G, t, pc) == [G EXCEPT !.tasks[t].pc = pc]

\* data_lock is a threading.Lock (line 40).  "with data_lock:" acquires it
\* and releases it when the block is left, by its end, a return or an
\* exception.
Held(G, t) == [G EXCEPT !.data_lock = Some(t)]

\* A "with" that did not release the lock on leaving the block.
Release_kept(G, t) == G

Release(G, t) == [G EXCEPT !.data_lock = None]

\* Coroutine t comes to "with data_lock:" and goes on as H.  acquire() on a
\* lock that is held blocks the thread, which is the event loop's: the
\* holder cannot run to release it, and t stays where it is.
WithLock(G, t, H) ==
    IF G.data_lock # None THEN Goto(G, t, "blocked") ELSE H

\* Coroutine t is about to assign to a member of shared_data.
Assigned(G, t, member) ==
    IF G.data_lock = Some(t) THEN G
    ELSE [G EXCEPT !.unlocked_writes = @ \cup {member}]

\* send_json up to its first await (lines 240-249): the request takes the
\* current request_id and the counter moves on.
IdLimit == IF engine = "ids" THEN MaxIssued ELSE MaxRequestId

NextRequestId(id) == IF id < IdLimit THEN id + 1 ELSE id

\* What enable_polling and an iteration of polling_loop have called so far,
\* in order (log): the engine calls with the handle they are about, and the
\* two broadcasts.  The log is kept in the runs of kind "pair".
CallEvent(G, t, pc) ==
    CASE pc = "w_project" -> <<"project", 0>>
      [] pc = "w_timelines" -> <<"timelines", 0>>
      [] pc = "w_info" -> <<"info", Head(G.tasks[t].todo)>>
      [] OTHER -> <<"cues", Head(G.tasks[t].todo)>>

Logged(G, t, event) ==
    IF engine = "pair" /\ G.tasks[t].kind \in {"life", "enable", "loop"}
    THEN [G EXCEPT !.tasks[t].log = Append(@, event)]
    ELSE G

\* The id of the request (line 241), kept in the runs of kind "ids".
RequestId(G) == IF engine = "ids" THEN G.request_id ELSE 0

\* A send_json that did not move the counter on (line 246).
IssueCall_same_id(G, t, pc) ==
    [Logged(G, t, CallEvent(G, t, pc)) EXCEPT
        !.tasks[t].id = RequestId(G), !.tasks[t].pc = pc]

IssueCall(G, t, pc) ==
    [Logged(G, t, CallEvent(G, t, pc)) EXCEPT
        !.request_id = NextRequestId(@), !.tasks[t].id = RequestId(G),
        !.tasks[t].pc = pc]

\* list(connected_clients.copy()), in the set's iteration order.
CopyOf(clients) == SelectSeq(ViewerOrder, LAMBDA v : v \in clients)

\* An enable_polling without line 503 would go from the fetch cycle straight
\* to broadcast_update.
AfterFetch_update_only(kind) ==
    CASE kind = "life" -> "do_start_loop"
      [] OTHER -> "do_bcast_update"

\* What follows the fetch cycle (cues for every handle) in each caller.
AfterFetch(kind) ==
    CASE kind = "life" -> "do_start_loop"
      [] kind = "enable" -> "do_bcast_polling"
      [] OTHER -> "do_bcast_update"

\* What follows broadcast_polling_state in each caller.
AfterBcastPolling(kind) ==
    CASE kind = "enable" -> "do_bcast_update"
      [] kind = "timer" -> "do_timer_end"
      [] OTHER -> "do_respond"

\* What follows broadcast_update in each caller.
AfterBcastUpdate(kind) ==
    CASE kind = "life" -> "serving"
      [] kind = "loop" -> "w_sleep"
      [] OTHER -> "do_respond"

\* The status member of a handler's final response (lines 506, 529, 539).
ResponseStatus(kind) ==
    CASE kind = "enable" -> "enabled"
      [] kind = "disable" -> "disabled"
      [] OTHER -> "force updated"

\* task.cancel() on a task that is not done: CancelledError is thrown into
\* the await it is suspended in, which no handler of these coroutines
\* catches, so no further line of the task runs.  The log of a task
\* cancelled in a send of its broadcast says so.
Cancel(G, t) ==
    [G EXCEPT !.tasks[t] = [NewTask(G.tasks[t].kind, "cancelled") EXCEPT
                               !.log = IF G.tasks[t].pc = "w_send_p"
                                       THEN <<<<"w_send_p", 0>>>> ELSE <<>>]]

\* Without the cancel() of lines 486 and 523 the task would be left alone.
CancelAutoDisable_left(G) == G

\* "if auto_disable_task and not auto_disable_task.done(): cancel()"
\* (lines 485-486, 522-523).
CancelAutoDisable(G) ==
    IF G.auto_disable_task # None /\ G.tasks[G.auto_disable_task[1]].pc \notin Finished
    THEN Cancel(G, G.auto_disable_task[1])
    ELSE G

\* asyncio.create_task(auto_disable_polling()): a task object not in use.
FreeTimers(G) ==
    {i \in TimerIds : G.tasks[i].pc \in Finished \cup {"free"}
                      /\ G.auto_disable_task # Some(i)}

\* ------------------------------------------------------------------------
\* Broadcast hub
\* ------------------------------------------------------------------------
\* broadcast_polling_state up to its first send (lines 213-222).
broadcast_polling_state(G, t) ==
    IF G.connected_clients = {}
    THEN Goto(G, t, AfterBcastPolling(G.tasks[t].kind))
    ELSE WithLock(G, t,
             [Release(Held(G, t), t) EXCEPT
                 !.tasks[t].text = PollingPayload(G.polling),
                 !.tasks[t].targets = CopyOf(G.connected_clients),
                 !.tasks[t].to_remove = {},
                 !.tasks[t].sent = {},
                 !.tasks[t].pc = "do_send_p"])

\* broadcast_update from the end of its "with data_lock:" to its first send
\* (lines 193-196).
update_payload(G, t) ==
    IF PayloadRaises(G.timelines) THEN Goto(G, t, "raised")
    ELSE [G EXCEPT !.tasks[t].text =
                       buildCountdownPayload(G.timelines, ProjectNameOf(G.status),
                                             G.polling),
                   !.tasks[t].targets = CopyOf(G.connected_clients),
                   !.tasks[t].to_remove = {},
                   !.tasks[t].sent = {},
                   !.tasks[t].pc = "do_send_u"]

\* broadcast_update up to its first send (lines 186-196).
broadcast_update(G, t) ==
    IF G.connected_clients = {}
    THEN Goto(G, t, AfterBcastUpdate(G.tasks[t].kind))
    ELSE WithLock(G, t, update_payload(Release(Held(G, t), t), t))

\* The loop over the copy (lines 196-209, 222-235): the next send, or after
\* the last one the discard of every viewer in to_remove.
next_send(G, t, waiting, after) ==
    IF G.tasks[t].targets = <<>>
    THEN [G EXCEPT !.connected_clients = @ \ G.tasks[t].to_remove,
                   !.tasks[t].to_remove = {},
                   !.tasks[t].text = NoPayload,
                   !.tasks[t].sent = {},
                   !.tasks[t].pc = after]
    ELSE Goto(G, t, waiting)

\* One send returned or raised (lines 197-207): a viewer whose send raised
\* goes to to_remove, whatever the exception.
send_result(G, t, ok) ==
    [G EXCEPT !.tasks[t].targets = Tail(@),
              !.tasks[t].sent =
                  IF ok THEN @ \cup {Head(G.tasks[t].targets)} ELSE @,
              !.tasks[t].to_remove =
                  IF ok THEN @ ELSE @ \cup {Head(G.tasks[t].targets)},
              !.tasks[t].pc = IF @ = "w_send_p" THEN "do_send_p" ELSE "do_send_u"]

\* ------------------------------------------------------------------------
\* Data fetchers: what follows each reply of the engine
\* ------------------------------------------------------------------------
\* get_project_name after its call (lines 349-351); in polling_loop the
\* lines 377-381 follow.
project_stored(G, t, ret) ==
    IF GetRaises(ret) THEN Goto(Release(G, t), t, "raised")
    ELSE [Release([Assigned(G, t, "status") EXCEPT
                      !.status = Some(project_name_of(ret))], t) EXCEPT
             !.tasks[t].last = IF G.tasks[t].kind = "loop"
                               THEN G.tasks[t].cur ELSE @,
             !.tasks[t].cur = 0,
             !.tasks[t].pc = "do_timelines"]

project_reply(G, t, ret) == WithLock(G, t, project_stored(Held(G, t), t, ret))

\* get_timelines after its first call (lines 268-271).
timelines_begin(G, t, r) ==
    IF r.raised THEN Goto(G, t, "raised")
    ELSE [G EXCEPT !.tasks[t].todo = r.handles,
                   !.tasks[t].listed = r.handles,
                   !.tasks[t].clean = <<>>,
                   !.tasks[t].pc = "do_info"]

timelines_reply(G, t, ret) == timelines_begin(G, t, timelines_listed(ret))

\* get_timelines after the info call of one handle (lines 273-278).
info_reply(G, t, ret) ==
    [G EXCEPT !.tasks[t].clean =
                  DictPut(@, Head(G.tasks[t].todo), NewTimeline(info_json_of(ret))),
              !.tasks[t].todo = Tail(@),
              !.tasks[t].pc = "do_info"]

\* get_timelines, the next handle or, after the last, lines 280-281.
timelines_next(G, t) ==
    IF G.tasks[t].todo = <<>>
    THEN WithLock(G, t,
             [Release([Assigned(Held(G, t), t, "timelines") EXCEPT
                          !.timelines = G.tasks[t].clean], t) EXCEPT
                 !.tasks[t].clean = <<>>,
                 !.tasks[t].listed = <<>>,
                 !.tasks[t].pc = "do_handles"])
    ELSE IssueCall(G, t, "w_info")

\* get_cues after its call (lines 288-342).
cues_done(G, t, r) ==
    IF r.raised THEN Goto(G, t, "raised")
    ELSE WithLock(G, t,
             [Release([Assigned(Held(G, t), t, "timelines") EXCEPT
                          !.timelines = r.timelines], t) EXCEPT
                 !.tasks[t].todo = Tail(@),
                 !.tasks[t].pc = "do_cues"])

cues_reply(G, t, ret) ==
    cues_done(G, t, cues_stored(ret, Head(G.tasks[t].todo), G.timelines))

\* list(shared_data["timelines"].keys()) (lines 386, 422, 498, 536).
KeyList(d) == [i \in 1..Len(d) |-> d[i][1]]

handles_listed(G, t) ==
    [G EXCEPT !.tasks[t].todo = KeyList(G.timelines), !.tasks[t].pc = "do_cues"]

\* polling_loop and enable_polling list the handles with the lock held
\* (lines 385-386, 497-498), lifespan and force_update without it.
timeline_handles(G, t) ==
    IF G.tasks[t].kind \in {"loop", "enable"}
    THEN WithLock(G, t, handles_listed(Release(Held(G, t), t), t))
    ELSE handles_listed(G, t)

\* ------------------------------------------------------------------------
\* Polling scheduler
\* ------------------------------------------------------------------------
\* An iteration that did not read polling_enabled (lines 365, 370) would
\* fetch whatever the polling state.
loop_iteration_unconditional(G, t, clock) ==
    IF clock - G.tasks[t].last >= PROJECT_TIMELINE_INTERVAL
    THEN IssueCall([G EXCEPT !.tasks[t].cur = clock], t, "w_project")
    ELSE IssueCall(G, t, "w_timelines")

\* An iteration comparing with ">" would refresh the project name one
\* iteration late.
loop_iteration_late(G, t, clock) ==
    IF ~G.polling.enabled THEN Goto(G, t, "w_sleep")
    ELSE IF clock - G.tasks[t].last > PROJECT_TIMELINE_INTERVAL
    THEN IssueCall([G EXCEPT !.tasks[t].cur = clock], t, "w_project")
    ELSE IssueCall(G, t, "w_timelines")

\* The top of one iteration of polling_loop (lines 365-384, 394).
loop_iteration(G, t, clock) ==
    IF ~G.polling.enabled THEN Goto(G, t, "w_sleep")
    ELSE IF clock - G.tasks[t].last >= PROJECT_TIMELINE_INTERVAL
    THEN IssueCall([G EXCEPT !.tasks[t].cur = clock], t, "w_project")
    ELSE IssueCall(G, t, "w_timelines")

\* A new iteration of "while True" (line 364): its log starts empty, and
\* the polling state is read with the lock held (lines 365-368).
loop_top(G, t, clock) ==
    WithLock(G, t,
        loop_iteration(Release(Held([G EXCEPT !.tasks[t].log = <<>>], t), t),
                       t, clock))

\* Lines 475-477: the polling state of an enable at time clock.
\* An enable_polling whose auto_disable_at is the time of the enable itself.
PollingOn_at_once(clock) ==
    [enabled |-> TRUE, enabled_at |-> Some(clock), auto_disable_at |-> Some(clock)]

PollingOn(clock) ==
    [enabled |-> TRUE, enabled_at |-> Some(clock),
     auto_disable_at |-> Some(clock + AUTO_DISABLE_DELAY)]

\* polling_task is None or polling_task.done() (line 480).
LoopDone(G) ==
    G.polling_task = None \/ G.tasks[G.polling_task[1]].pc \in Finished

\* The task object of a new polling loop: one that no running loop has.
NewLoopId(G) ==
    IF G.tasks["loop"].pc \in Finished \cup {"free"} THEN "loop" ELSE "loop2"

\* Which polling loop of the process the new one is: the first, the
\* second, ...
NextInstance(G) ==
    IF engine # "restart" \/ G.polling_task = None THEN 1
    ELSE IF G.tasks[G.polling_task[1]].instance < MaxLoops
    THEN G.tasks[G.polling_task[1]].instance + 1
    ELSE MaxLoops

\* polling_task = asyncio.create_task(polling_loop()) (lines 427, 481).
create_polling_task(G) ==
    [G EXCEPT !.tasks[NewLoopId(G)] =
                  [NewTask("loop", "start") EXCEPT !.instance = NextInstance(G)],
              !.polling_task = Some(NewLoopId(G))]

\* An enable_polling without the test of line 480.
restart_loop_always(G) == create_polling_task(G)

\* Lines 480-482: the polling loop is started again if its task is done.
restart_loop(G) ==
    IF LoopDone(G) THEN create_polling_task(G) ELSE G

\* A task created without the assignment of line 489 would not be the one
\* auto_disable_task names.
create_auto_disable_unnamed(G, new) ==
    [G EXCEPT !.tasks[new] = NewTask("timer", "start")]

\* Line 489: auto_disable_task = asyncio.create_task(auto_disable_polling()).
create_auto_disable(G, new) ==
    [G EXCEPT !.tasks[new] = NewTask("timer", "start"),
              !.auto_disable_task = Some(new)]

\* Lines 485-489: the previous auto-disable task is cancelled and a new one
\* created.
rearm_auto_disable(G) ==
    create_auto_disable(CancelAutoDisable(G),
                        CHOOSE i \in FreeTimers(CancelAutoDisable(G)) : TRUE)

\* An enable_polling without the early return of lines 472-473 would enable
\* again.
enable_polling_again(G, t, clock) ==
    IssueCall(
        Release(rearm_auto_disable(restart_loop(
                    [Assigned(G, t, "polling") EXCEPT !.polling = PollingOn(clock)])),
                t),
        t, "w_project")

\* enable_polling up to its first await, from inside its "with data_lock:"
\* (lines 472-494).
enable_polling(G, t, clock) ==
    IF G.polling.enabled
    THEN [Release(G, t) EXCEPT
             !.tasks[t].resp = [status |-> "already_enabled", polling |-> G.polling],
             !.tasks[t].pc = "done"]
    ELSE IssueCall(
             Release(rearm_auto_disable(restart_loop(
                         [Assigned(G, t, "polling") EXCEPT
                             !.polling = PollingOn(clock)])),
                     t),
             t, "w_project")

\* Lines 522-524: the auto-disable task is cancelled and forgotten.
drop_auto_disable(G) ==
    IF G.auto_disable_task # None
       /\ G.tasks[G.auto_disable_task[1]].pc \notin Finished
    THEN [CancelAutoDisable(G) EXCEPT !.auto_disable_task = None]
    ELSE G

\* A disable_polling without the early return of lines 514-515 would disable
\* again.
disable_polling_again(G, t) ==
    Goto(Release(drop_auto_disable(
                     [Assigned(G, t, "polling") EXCEPT !.polling = PollingOff]), t),
         t, "do_bcast_polling")

\* disable_polling up to its first await, from inside its
\* "with data_lock:" (lines 514-528).
disable_polling(G, t) ==
    IF ~G.polling.enabled
    THEN [Release(G, t) EXCEPT
             !.tasks[t].resp = [status |-> "already_disabled", polling |-> G.polling],
             !.tasks[t].pc = "done"]
    ELSE Goto(Release(drop_auto_disable(
                          [Assigned(G, t, "polling") EXCEPT !.polling = PollingOff]),
                      t),
              t, "do_bcast_polling")

\* An auto_disable_polling without lines 402-406 would leave polling as it
\* is.
auto_disable_polling_idle(G, t) == Goto(Release(G, t), t, "do_bcast_polling")

\* auto_disable_polling when its sleep has ended, from inside its
\* "with data_lock:" (lines 402-408).
auto_disable_polling(G, t) ==
    Goto(Release(IF G.polling.enabled
                 THEN [Assigned(G, t, "polling") EXCEPT !.polling = PollingOff]
                 ELSE G, t),
         t, "do_bcast_polling")

\* get_polling_state (lines 460-464): the polling state, read and returned
\* with the lock held.
get_polling_state(G, t) ==
    WithLock(G, t,
        [Release(Held(G, t), t) EXCEPT
            !.tasks[t].resp = [status |-> "state", polling |-> G.polling],
            !.tasks[t].pc = "done"])

\* ------------------------------------------------------------------------
\* Viewer connections (ws_countdowns)
\* ------------------------------------------------------------------------
\* Lines 545-557: the viewer joins connected_clients and its first payload,
\* buildCountdownPayload of the snapshot as it is now, is built and handed to
\* the send; an exception of the builder is logged and the loop entered.
ws_first_payload(G, t) ==
    WithLock(G, t,
        Goto(Release(Held(G, t), t), t,
             IF PayloadRaises(G.timelines) THEN "do_ws_loop" ELSE "w_init"))

ws_accepted(G, t) ==
    ws_first_payload([G EXCEPT !.connected_clients = @ \cup {t}], t)

\* Lines 580-587: the payload of a turn with polling Disabled, read with the
\* lock held.
ws_payload(G, t) ==
    WithLock(G, t,
        Goto(Release(Held(G, t), t), t,
             IF PayloadRaises(G.timelines) THEN "w_sleep" ELSE "w_hb"))

ws_turn(G, t) ==
    IF G.polling.enabled THEN Goto(G, t, "w_sleep") ELSE ws_payload(G, t)

\* Lines 570-606: one turn of the viewer's own loop, which reads the
\* polling state with the lock held (lines 572-574).
ws_loop(G, t) == WithLock(G, t, ws_turn(Release(Held(G, t), t), t))

\* Lines 617-619: the finally clause.
ws_close(G, t) ==
    [G EXCEPT !.connected_clients = @ \ {t}, !.tasks[t].pc = "closed"]

\* ------------------------------------------------------------------------
\* One coroutine, run from where it was resumed to its next await
\* ------------------------------------------------------------------------
Step(G, t, clock) ==
    CASE G.tasks[t].pc = "do_enable" ->
            WithLock(G, t, enable_polling(Held(G, t), t, clock))
      [] G.tasks[t].pc = "do_disable" ->
            WithLock(G, t, disable_polling(Held(G, t), t))
      [] G.tasks[t].pc = "do_fire" ->
            WithLock(G, t, auto_disable_polling(Held(G, t), t))
      [] G.tasks[t].pc = "do_iter" -> loop_top(G, t, clock)
      [] G.tasks[t].pc = "do_project" -> IssueCall(G, t, "w_project")
      [] G.tasks[t].pc = "do_timelines" -> IssueCall(G, t, "w_timelines")
      [] G.tasks[t].pc = "do_info" -> timelines_next(G, t)
      [] G.tasks[t].pc = "do_handles" -> timeline_handles(G, t)
      [] G.tasks[t].pc = "do_cues" ->
            IF G.tasks[t].todo = <<>> THEN Goto(G, t, AfterFetch(G.tasks[t].kind))
            ELSE IssueCall(G, t, "w_cues")
      [] G.tasks[t].pc = "do_start_loop" ->
            Goto(create_polling_task(G), t, "do_bcast_update")
      [] G.tasks[t].pc = "do_bcast_polling" ->
            broadcast_polling_state(Logged(G, t, <<"polling_state", 0>>), t)
      [] G.tasks[t].pc = "do_send_p" ->
            next_send(G, t, "w_send_p", AfterBcastPolling(G.tasks[t].kind))
      [] G.tasks[t].pc = "do_bcast_update" ->
            broadcast_update(Logged(G, t, <<"update", 0>>), t)
      [] G.tasks[t].pc = "do_send_u" ->
            next_send(G, t, "w_send_u", AfterBcastUpdate(G.tasks[t].kind))
      [] G.tasks[t].pc = "do_respond" ->
            [G EXCEPT !.tasks[t].resp =
                          [status |-> ResponseStatus(G.tasks[t].kind),
                           polling |-> G.polling],
                      !.tasks[t].pc = "done"]
      [] G.tasks[t].pc = "do_timer_end" ->
            [G EXCEPT !.auto_disable_task = None,
                      !.tasks[t] = NewTask("timer", "done")]
      [] G.tasks[t].pc = "do_state" -> get_polling_state(G, t)
      [] G.tasks[t].pc = "do_ws_accepted" -> ws_accepted(G, t)
      [] G.tasks[t].pc = "do_ws_loop" -> ws_loop(G, t)
      [] G.tasks[t].pc = "do_ws_close" -> ws_close(G, t)

RECURSIVE Run(_, _, _)
Run(G, t, clock) ==
    IF G.tasks[t].pc \in Suspended THEN G ELSE Run(Step(G, t, clock), t, clock)

\* The program's variables take the values of H.
Becomes(H) ==
    /\ timelines' = H.timelines
    /\ status' = H.status
    /\ polling' = H.polling
    /\ connected_clients' = H.connected_clients
    /\ request_id' = H.request_id
    /\ auto_disable_task' = H.auto_disable_task
    /\ tasks' = H.tasks
    /\ data_lock' = H.data_lock
    /\ unlocked_writes' = H.unlocked_writes
    /\ polling_task' = H.polling_task

\* The program's state after task t has run from G to its next await.
Resume(G, t) == Becomes(Run(G, t, now))

\* ------------------------------------------------------------------------
\* The engine and the viewers: what the environment can do
\* ------------------------------------------------------------------------
NonObject == [EmptyMapping EXCEPT !.top = "nonobj"]
ResultOf(kind) == [EmptyMapping EXCEPT !.kind = kind]
NameReply(n) == [EmptyMapping EXCEPT !.kind = "str", !.name = n]
HandleList(hs) == [EmptyMapping EXCEPT !.kind = "list", !.handles = hs]
InfoText(n, m) ==
    [EmptyMapping EXCEPT !.kind = "str", !.text = "obj", !.name = n, !.Mode = m]
TextOf(text) == [EmptyMapping EXCEPT !.kind = "str", !.text = text]
CueList(cs) == [EmptyMapping EXCEPT !.kind = "list", !.cues = cs]
CueText(cs) == [EmptyMapping EXCEPT !.kind = "str", !.text = "list", !.cues = cs]

Str(chars) == PyStr(chars)
CueObject(n, h, cd, tm) ==
    [kind |-> "obj", name |-> n, handle |-> h, countdown |-> cd, time |-> tm,
     operation |-> "Play", note |-> ""]

\* "0:0:5:0", five seconds to go, and "-0:0:5:0", five seconds ago.
FiveSeconds == <<"0", ":", "0", ":", "5", ":", "0">>
MinusFiveSeconds == <<"-">> \o FiveSeconds

CueAhead == CueObject("A", "c1", Str(FiveSeconds), PyNone)
CuePast == CueObject("B", "c2", Str(MinusFiveSeconds), Str(FiveSeconds))
CuePastNoTime == CueObject("", "c3", Str(MinusFiveSeconds), PyNone)
CueNumber == CueObject("A", "c1", PyInt(5), PyNone)
CueNoObject == [CueAhead EXCEPT !.kind = "nonobj"]

\* The handles of the two timelines of a "pair" run, as the engine lists
\* them.
PairHandles == <<2, 1>>

\* The outcomes of one call, per method, in a run of kind e:
\*   "steady"  the engine answers every call, always the same
\*   "live"    a cue call can time out and the timeline list can be a JSON
\*             value that is no object
\*   "pair"    two timelines, listed as 2 and 1; every call is answered
\*   "plain"   one timeline with one cue; the project name can be a JSON
\*             value that is no object
\*   "churn"   the engine lists now timeline 1, now timelines 2 and 1
\*   "ids"     one timeline with one cue; the project-name call and a cue
\*             call can fail
\*   "restart" one timeline with one cue; the timeline list can be a JSON
\*             value that is no object
\*   "shapes"  every failure and every shape of reply
ProjectOutcomes(e) ==
    CASE e = "steady" -> {Ok(NameReply("Show"))}
      [] e = "live" -> {Ok(NameReply("Show"))}
      [] e = "pair" -> {Ok(NameReply("Show"))}
      [] e = "plain" -> {Ok(NameReply("Show")), Ok(NonObject)}
      [] e = "churn" -> {Ok(NameReply("Show"))}
      [] e = "ids" -> {Failed("connect_error"), Ok(NameReply("Show"))}
      [] e = "restart" -> {Ok(NameReply("Show"))}
      [] OTHER -> {Failed(f) : f \in CallFailures}
                  \cup {Ok(NameReply("Show")), Ok(NameReply("Tour")),
                        Ok(ResultOf("null")), Ok(NonObject)}

TimelinesOutcomes(e) ==
    CASE e = "steady" -> {Ok(HandleList(<<1>>))}
      [] e = "live" -> {Ok(HandleList(<<1>>)), Ok(NonObject)}
      [] e = "pair" -> {Ok(HandleList(PairHandles))}
      [] e = "plain" -> {Ok(HandleList(<<1>>))}
      [] e = "churn" -> {Ok(HandleList(<<1>>)), Ok(HandleList(PairHandles))}
      [] e = "ids" -> {Ok(HandleList(<<1>>))}
      [] e = "restart" -> {Ok(HandleList(<<1>>)), Ok(NonObject)}
      [] OTHER -> {Failed("timeout"), Ok(HandleList(<<>>)), Ok(HandleList(<<1>>)),
                   Ok(HandleList(<<2, 1>>)), Ok(ResultOf("null")),
                   Ok(ResultOf("num")), Ok(NonObject)}

InfoOutcomes(e) ==
    CASE e = "steady" -> {Ok(InfoText("Main", "Play"))}
      [] e = "live" -> {Ok(InfoText("Main", "Play"))}
      [] e = "pair" -> {Ok(InfoText("Main", "Play"))}
      [] e = "plain" -> {Ok(InfoText("Main", "Play"))}
      [] e = "churn" -> {Ok(InfoText("Main", "Play"))}
      [] e = "ids" -> {Ok(InfoText("Main", "Play"))}
      [] e = "restart" -> {Ok(InfoText("Main", "Play"))}
      [] OTHER -> {Failed("timeout"), Ok(InfoText("Main", "Play")),
                   Ok(TextOf("bad")), Ok(TextOf("list")), Ok(NonObject)}

CueOutcomes(e) ==
    CASE e = "steady" -> {Ok(CueList(<<CueAhead, CuePast, CuePastNoTime>>))}
      [] e = "live" -> {Failed("timeout"),
                       Ok(CueList(<<CueAhead, CuePast, CuePastNoTime>>))}
      [] e = "pair" -> {Ok(CueList(<<CueAhead>>))}
      [] e = "plain" -> {Ok(CueList(<<CueAhead>>))}
      [] e = "churn" -> {Ok(CueList(<<CueAhead>>))}
      [] e = "ids" -> {Failed("timeout"), Ok(CueList(<<CueAhead>>))}
      [] e = "restart" -> {Ok(CueList(<<CueAhead>>))}
      [] OTHER -> {Failed("timeout"), Ok(NonObject), Ok(ResultOf("null")),
                   Ok(TextOf("bad")), Ok(TextOf("obj")),
                   Ok(CueList(<<CueAhead>>)), Ok(CueText(<<CuePast>>)),
                   Ok(CueList(<<CueAhead, CuePastNoTime>>)),
                   Ok(CueList(<<CueNumber>>)), Ok(CueList(<<CueNoObject>>))}

\* The exception a send on a dead connection raises.
SendErrors == {"WebSocketDisconnect", "RuntimeError"}

Env == <<now, alive, engine, call, probe>>

\* ------------------------------------------------------------------------
\* Actions: one resumption of one coroutine each
\* ------------------------------------------------------------------------
Serving == tasks["life"].pc = "serving"

\* A lifespan that created the polling task before its initial data load.
LifespanStart_loop_first ==
    /\ tasks["life"].pc = "start"
    /\ Resume(Goto(State, "life", "do_start_loop"), "life")
    /\ UNCHANGED Env

\* lifespan (lines 413-435): the server serves once it has yielded.
LifespanStart ==
    /\ tasks["life"].pc = "start"
    /\ Resume(Goto(State, "life", "do_project"), "life")
    /\ UNCHANGED Env

\* polling_loop is scheduled for the first time (lines 360-362).
LoopStart ==
    /\ tasks["loop"].pc = "start"
    /\ Resume([State EXCEPT !.tasks["loop"].last = now,
                            !.tasks["loop"].pc = "do_iter"], "loop")
    /\ UNCHANGED Env

\* asyncio.sleep(0.1) of polling_loop returns (line 394).
LoopWake ==
    /\ tasks["loop"].pc = "w_sleep"
    /\ tasks["loop"].kind = "loop"
    /\ Resume(Goto(State, "loop", "do_iter"), "loop")
    /\ UNCHANGED Env

Fetchers == {"life", "loop"} \cup ReqIds

ProjectReply(t) ==
    /\ tasks[t].pc = "w_project"
    /\ \E out \in ProjectOutcomes(engine) :
          Resume(project_reply(State, t, send_json(out)), t)
    /\ UNCHANGED Env

TimelinesReply(t) ==
    /\ tasks[t].pc = "w_timelines"
    /\ \E out \in TimelinesOutcomes(engine) :
          Resume(timelines_reply(State, t, send_json(out)), t)
    /\ UNCHANGED Env

InfoReply(t) ==
    /\ tasks[t].pc = "w_info"
    /\ \E out \in InfoOutcomes(engine) :
          Resume(info_reply(State, t, send_json(out)), t)
    /\ UNCHANGED Env

CuesReply(t) ==
    /\ tasks[t].pc = "w_cues"
    /\ \E out \in CueOutcomes(engine) :
          Resume(cues_reply(State, t, send_json(out)), t)
    /\ UNCHANGED Env

\* ws.send_text of a broadcast returns, or raises on a dead connection.
SendDone(t) ==
    /\ tasks[t].pc \in {"w_send_p", "w_send_u"}
    /\ Resume(send_result(State, t, Head(tasks[t].targets) \in alive), t)
    /\ UNCHANGED Env

CanCall(r) == Serving /\ tasks[r].pc \in {"free", "done", "raised"}

\* POST /api/polling/enable
EnableCall(r) ==
    /\ CanCall(r)
    /\ polling.enabled \/ FreeTimers(CancelAutoDisable(State)) # {}
    /\ Resume([State EXCEPT !.tasks[r] = NewTask("enable", "do_enable")], r)
    /\ UNCHANGED Env

\* POST /api/polling/disable
DisableCall(r) ==
    /\ CanCall(r)
    /\ Resume([State EXCEPT !.tasks[r] = NewTask("disable", "do_disable")], r)
    /\ UNCHANGED Env

\* POST /api/force_update
ForceUpdateCall(r) ==
    /\ CanCall(r)
    /\ Resume([State EXCEPT !.tasks[r] =
                   [NewTask("force", "do_project") EXCEPT !.before = timelines]], r)
    /\ UNCHANGED Env

\* GET /api/polling/state
StateCall(r) ==
    /\ CanCall(r)
    /\ Resume([State EXCEPT !.tasks[r] = NewTask("state", "do_state")], r)
    /\ UNCHANGED Env

\* auto_disable_polling is scheduled for the first time: its sleep begins
\* (line 399).
TimerStart(i) ==
    /\ tasks[i].pc = "start"
    /\ Resume([State EXCEPT !.tasks[i].last = now + AUTO_DISABLE_DELAY,
                            !.tasks[i].pc = "w_timer"], i)
    /\ UNCHANGED Env

\* The sleep of auto_disable_polling ends.
TimerFire(i) ==
    /\ tasks[i].pc = "w_timer"
    /\ now >= tasks[i].last
    /\ Resume(Goto(State, i, "do_fire"), i)
    /\ UNCHANGED Env

\* A viewer opens /ws: the handler awaits websocket.accept() (line 544).
Connect(v) ==
    /\ Serving
    /\ tasks[v].pc = "free"
    /\ Resume([State EXCEPT !.tasks[v] = NewTask("ws", "w_accept")], v)
    /\ UNCHANGED Env

\* accept() returns (lines 545-557), or raises on a connection already lost.
WsAccepted(v) ==
    /\ tasks[v].pc = "w_accept"
    /\ Resume(Goto(State, v, IF v \in alive THEN "do_ws_accepted" ELSE "closed"), v)
    /\ UNCHANGED Env

\* The send of the first payload returns or raises (lines 557-566).
WsInitSent(v) ==
    /\ tasks[v].pc = "w_init"
    /\ \E err \in SendErrors :
          Resume(Goto(State, v,
                      IF v \in alive \/ err = "RuntimeError"
                      THEN "do_ws_loop" ELSE "do_ws_close"), v)
    /\ UNCHANGED Env

\* The send of the viewer's own loop returns or raises (lines 586-597).
WsLoopSent(v) ==
    /\ tasks[v].pc = "w_hb"
    /\ Resume(Goto(State, v, IF v \in alive THEN "w_sleep" ELSE "do_ws_close"), v)
    /\ UNCHANGED Env

\* A sleep of the viewer's own loop returns (lines 587, 601, 606).
WsWake(v) ==
    /\ tasks[v].pc = "w_sleep"
    /\ tasks[v].kind = "ws"
    /\ Resume(Goto(State, v, "do_ws_loop"), v)
    /\ UNCHANGED Env

\* A viewer's connection is lost.
ViewerDrop(v) ==
    /\ tasks[v].pc \notin {"free", "closed"}
    /\ v \in alive
    /\ alive' = alive \ {v}
    /\ UNCHANGED <<timelines, status, polling, connected_clients, request_id,
                   auto_disable_task, tasks, now, engine, call, probe,
                   data_lock, unlocked_writes, polling_task>>

\* Time passes: d seconds.
Tick(d) ==
    /\ now + d <= MaxTime
    /\ now' = now + d
    /\ UNCHANGED <<timelines, status, polling, connected_clients, request_id,
                   auto_disable_task, tasks, alive, engine, call, probe,
                   data_lock, unlocked_writes, polling_task>>

\* Time passes in steps of half the PROJECT_TIMELINE_INTERVAL, MaxPaces
\* times.
MaxPaces == 4
PaceStep == PROJECT_TIMELINE_INTERVAL \div 2

Pace ==
    /\ now + PaceStep <= MaxPaces * PaceStep
    /\ now' = now + PaceStep
    /\ UNCHANGED <<timelines, status, polling, connected_clients, request_id,
                   auto_disable_task, tasks, alive, engine, call, probe,
                   data_lock, unlocked_writes, polling_task>>

\* ------------------------------------------------------------------------
\* Protocol client: one call of send_json on the wire (lines 237-263)
\* ------------------------------------------------------------------------
\* Text is a sequence of characters.  MSG_TERMINATOR (line 47).
MSG_TERMINATOR == <<"0", "x", "P", "X">>

\* s.find(pat) from position i on: where pat first occurs, 0 if nowhere.
RECURSIVE Find(_, _, _)
Find(s, pat, i) ==
    IF i + Len(pat) - 1 > Len(s) THEN 0
    ELSE IF SubSeq(s, i, i + Len(pat) - 1) = pat THEN i
    ELSE Find(s, pat, i + 1)

\* reader.readuntil(separator) can return: the separator has arrived.
HasMessage(buf) == Find(buf, MSG_TERMINATOR, 1) # 0

\* What readuntil returns: the data up to and including the first separator.
readuntil(buf) ==
    SubSeq(buf, 1, Find(buf, MSG_TERMINATOR, 1) + Len(MSG_TERMINATOR) - 1)

\* s.replace(old, ""): every occurrence of old removed, left to right.
RECURSIVE Replace(_, _)
ReplaceAt(s, old, i) ==
    IF i = 0 THEN s
    ELSE SubSeq(s, 1, i - 1) \o Replace(SubSeq(s, i + Len(old), Len(s)), old)

Replace(s, old) == ReplaceAt(s, old, Find(s, old, 1))

\* json.loads on the texts of this model: "{}", "[]" and "7" are JSON, any
\* other text raises JSONDecodeError.
json_loads(text) ==
    CASE text = <<"{", "}">> -> [ok |-> TRUE, value |-> EmptyMapping]
      [] text = <<"[", "]">> -> [ok |-> TRUE, value |-> NonObject]
      [] text = <<"7">> -> [ok |-> TRUE, value |-> NonObject]
      [] OTHER -> [ok |-> FALSE, value |-> EmptyMapping]

\* Line 260: json.loads(decoded); its JSONDecodeError is caught at line 261.
decode_reply(decoded) ==
    IF json_loads(decoded).ok THEN Ok(json_loads(decoded).value)
    ELSE Failed("bad_json")

\* A decoder without the replace of line 259 would decode the data as read.
decoded_reply_whole(data) == decode_reply(data)

\* Lines 259-260: the terminator is taken out of the data and the rest
\* decoded.
decoded_reply(data) == decode_reply(Replace(data, MSG_TERMINATOR))

\* What the engine writes on a connection: a body, the terminator or a part
\* of it, and whatever it writes after that.
Bodies == {<<"{", "}">>, <<"[", "]">>, <<"7">>, <<"{">>, <<>>}
Streams ==
    {[body |-> b, wire |-> b \o MSG_TERMINATOR] : b \in Bodies}
    \cup {[body |-> <<"[", "]">>, wire |-> <<"[", "]">> \o MSG_TERMINATOR \o <<"{", "}">>],
          [body |-> <<"{", "}">>, wire |-> <<"{", "}", "0", "x">>]}

\* call.pc is the await send_json is suspended in:
\*   "w_connect"  asyncio.open_connection (line 249)
\*   "w_drain"    writer.drain (line 251)
\*   "w_read"     asyncio.wait_for(reader.readuntil(...), timeout=3.0) (line 253)
\*   "w_close"    writer.wait_closed (line 255)
\* id is the id of the request, stream what the engine writes on this
\* connection, buf what has arrived of it, data what readuntil returned,
\* status how the call went and ret what send_json returned.
IdleCall ==
    [pc |-> "idle", id |-> 0, stream |-> [body |-> <<>>, wire |-> <<>>],
     buf |-> <<>>, data |-> <<>>, status |-> "", ret |-> EmptyMapping,
     writer |-> "none"]

\* "return" and "except Exception: return {}" (lines 260-263).
call_returns(c, outcome) ==
    [c EXCEPT !.pc = "returned", !.status = outcome.status,
              !.ret = send_json(outcome)]

ClientFrame ==
    UNCHANGED <<timelines, status, polling, connected_clients,
                auto_disable_task, tasks, now, alive, engine, probe,
                data_lock, unlocked_writes, polling_task>>

\* Lines 240-249: the request takes the current request_id, the counter
\* moves on and the connection is asked for.
ClientCall ==
    /\ call.pc \in {"idle", "returned"}
    /\ call' = [IdleCall EXCEPT !.pc = "w_connect", !.id = request_id]
    /\ request_id' = NextRequestId(request_id)
    /\ ClientFrame

\* open_connection returns, and the message is written (lines 249-251), or
\* it raises. The writer of an opened connection is open until
\* writer.close() is called (line 254).
ClientConnected ==
    /\ call.pc = "w_connect"
    /\ \/ \E s \in Streams :
             call' = [call EXCEPT !.pc = "w_drain", !.stream = s,
                                  !.writer = "open"]
       \/ call' = call_returns(call, Failed("connect_error"))
    /\ UNCHANGED request_id
    /\ ClientFrame

\* drain returns or raises.
ClientDrained ==
    /\ call.pc = "w_drain"
    /\ \/ call' = [call EXCEPT !.pc = "w_read"]
       \/ call' = call_returns(call, Failed("io_error"))
    /\ UNCHANGED request_id
    /\ ClientFrame

\* More of the engine's reply arrives; readuntil returns once the
\* terminator is there, and the writer is closed (lines 253-255).
client_received(c, buf) ==
    IF HasMessage(buf)
    THEN [c EXCEPT !.buf = buf, !.data = readuntil(buf), !.pc = "w_close",
                   !.writer = "closed"]
    ELSE [c EXCEPT !.buf = buf]

ClientReceives ==
    /\ call.pc = "w_read"
    /\ \E n \in (Len(call.buf) + 1)..Len(call.stream.wire) :
          call' = client_received(call, SubSeq(call.stream.wire, 1, n))
    /\ UNCHANGED request_id
    /\ ClientFrame

\* Three seconds pass before the terminator has arrived: TimeoutError.
ClientTimeout ==
    /\ call.pc = "w_read"
    /\ call' = call_returns(call, Failed("timeout"))
    /\ UNCHANGED request_id
    /\ ClientFrame

\* The connection ends or breaks before the terminator has arrived:
\* IncompleteReadError or ConnectionResetError.
ClientReadFails ==
    /\ call.pc = "w_read"
    /\ call' = call_returns(call, Failed("io_error"))
    /\ UNCHANGED request_id
    /\ ClientFrame

\* wait_closed returns and the reply is decoded (lines 255-260), or it
\* raises.
ClientClosed ==
    /\ call.pc = "w_close"
    /\ \/ call' = call_returns(call, decoded_reply(call.data))
       \/ call' = call_returns(call, Failed("io_error"))
    /\ UNCHANGED request_id
    /\ ClientFrame

\* ------------------------------------------------------------------------
\* The parser and the cue conversion, called on their own
\* ------------------------------------------------------------------------
\* The texts handed to parse_countdown_string: an optional run of "-", then
\* up to MaxParts components joined by ":".  "969" is the frame count whose
\* milliseconds the double arithmetic of line 102 does not give exactly.
MaxParts == 5
Components ==
    {<<"0">>, <<"5">>, <<"3", "0">>, <<"9", "6", "9">>, <<"x">>, <<>>}
Signs == {<<>>, <<"-">>, <<"-", "-">>}

\* "01:02:03:30" and "00:00:05:00".
ExampleAhead == << <<"0", "1">>, <<"0", "2">>, <<"0", "3">>, <<"3", "0">> >>
ExamplePast == << <<"0", "0">>, <<"0", "0">>, <<"0", "5">>, <<"0", "0">> >>
ExampleParts == {ExampleAhead, ExamplePast}

RECURSIVE SeqsOf(_, _)
SeqsOf(S, n) ==
    IF n = 0 THEN {<<>>}
    ELSE {Append(p, c) : p \in SeqsOf(S, n - 1), c \in S}

\* The hours stay below 596, so that the milliseconds fit TLC's integers.
PartLists ==
    {p \in UNION {SeqsOf(Components, n) : n \in 1..MaxParts} :
        p[1] # <<"9", "6", "9">>} \cup ExampleParts

RECURSIVE Joined(_)
Joined(parts) ==
    IF Len(parts) = 1 THEN parts[1]
    ELSE parts[1] \o <<":">> \o Joined(Tail(parts))

\* The countdown and time members of the cue records handed to get_cues'
\* loop body: absent, empty, ahead, past, no countdown text at all.
OneTwoThreeThirty == <<"1", ":", "2", ":", "3", ":", "3", "0">>
CountdownValues ==
    {PyNone, Str(FiveSeconds), Str(MinusFiveSeconds),
     Str(<<"-">> \o OneTwoThreeThirty), Str(<<"x">>)}
TimeValues ==
    {PyNone, Str(<<>>), Str(FiveSeconds), Str(MinusFiveSeconds),
     Str(OneTwoThreeThirty), Str(<<"x", ":">>)}

IdleProbe ==
    [op |-> "none", pc |-> "idle", sign |-> <<>>, parts |-> <<>>,
     arg |-> PyNone, parsed |-> [raised |-> FALSE, cd |-> ZeroCountdown],
     stored |-> None, records |-> <<>>]

\* A call of parse_countdown_string on a text, not yet run.
parse_called(sign, parts) ==
    [IdleProbe EXCEPT !.op = "parse", !.pc = "called", !.sign = sign,
                      !.parts = parts, !.arg = PyStr(sign \o Joined(parts))]

\* A run of the body of get_cues' loop on a cue record, not yet run.
store_called(cue) ==
    [IdleProbe EXCEPT !.op = "store", !.pc = "called", !.arg = cue]

ProbeCalls ==
    {parse_called(sign, parts) : sign \in Signs, parts \in PartLists}
    \cup {store_called(CueObject(n, "c1", cd, tm)) :
             n \in {"A", ""}, cd \in CountdownValues, tm \in TimeValues}

ProbeFrame ==
    UNCHANGED <<timelines, status, polling, connected_clients, request_id,
                auto_disable_task, tasks, now, alive, engine, call,
                data_lock, unlocked_writes, polling_task>>

\* parse_countdown_string(raw) runs and returns (lines 75-119).
ParseReturn ==
    /\ probe.op = "parse"
    /\ probe.pc = "called"
    /\ probe' = [probe EXCEPT !.pc = "returned",
                              !.parsed = parse_countdown_string(probe.arg)]
    /\ ProbeFrame

\* The body of get_cues' loop runs on the cue record (lines 302-338).
\* The countdowns buildCountdownPayload lists for a snapshot of one timeline
\* whose cues are the one cue get_cues stored (lines 340-342, 131-171).
records_of(stored) ==
    IF stored.raised THEN <<>>
    ELSE TimelineRecords(<<<<1, [info |-> [kind |-> "obj", name |-> "Main",
                                           Mode |-> "Play"],
                             cues |-> <<<<stored.key, stored.val>>>>]>>>>)

StoreReturn ==
    /\ probe.op = "store"
    /\ probe.pc = "called"
    /\ probe' = [probe EXCEPT !.pc = "returned",
                              !.stored = store_cue(probe.arg),
                              !.records = records_of(store_cue(probe.arg))]
    /\ ProbeFrame

\* ------------------------------------------------------------------------
\* Specifications
\* ------------------------------------------------------------------------
\* The state of the module when it is loaded (lines 30-48, 182).
InitShared ==
    /\ timelines = <<>>
    /\ status = None
    /\ polling = PollingOff
    /\ connected_clients = {}
    /\ request_id = 1
    /\ auto_disable_task = None
    /\ tasks = [t \in TaskIds |->
                  IF t = "life" THEN NewTask("life", "start") ELSE FreeTask]
    /\ now = 0
    /\ alive = Viewers
    /\ call = IdleCall
    /\ data_lock = None
    /\ unlocked_writes = {}
    /\ polling_task = None

InitProgram == InitShared /\ probe = IdleProbe

\* Every action of the program and of its environment.
Next ==
    \/ LifespanStart
    \/ LoopStart
    \/ LoopWake
    \/ \E t \in Fetchers : ProjectReply(t)
    \/ \E t \in Fetchers : TimelinesReply(t)
    \/ \E t \in Fetchers : InfoReply(t)
    \/ \E t \in Fetchers : CuesReply(t)
    \/ \E t \in Fetchers \cup TimerIds : SendDone(t)
    \/ \E r \in ReqIds : EnableCall(r)
    \/ \E r \in ReqIds : DisableCall(r)
    \/ \E r \in ReqIds : ForceUpdateCall(r)
    \/ \E r \in ReqIds : StateCall(r)
    \/ \E i \in TimerIds : TimerStart(i)
    \/ \E i \in TimerIds : TimerFire(i)
    \/ \E v \in Viewers : Connect(v)
    \/ \E v \in Viewers : WsAccepted(v)
    \/ \E v \in Viewers : WsInitSent(v)
    \/ \E v \in Viewers : WsLoopSent(v)
    \/ \E v \in Viewers : WsWake(v)
    \/ \E v \in Viewers : ViewerDrop(v)
    \/ Tick(AUTO_DISABLE_DELAY)
    \/ ClientCall
    \/ ClientConnected
    \/ ClientDrained
    \/ ClientReceives
    \/ ClientTimeout
    \/ ClientReadFails
    \/ ClientClosed
    \/ ParseReturn
    \/ StoreReturn

System == InitProgram /\ engine = "live" /\ [][Next]_vars

\* The polling scheduler: the loop, one control request at a time, the
\* auto-disable tasks, one viewer and the clock.
Init == InitProgram /\ engine = "live"

NextScheduler ==
    \/ LifespanStart
    \/ LoopStart
    \/ LoopWake
    \/ \E t \in {"life", "loop", "r1"} : ProjectReply(t)
    \/ \E t \in {"life", "loop", "r1"} : TimelinesReply(t)
    \/ \E t \in {"life", "loop", "r1"} : InfoReply(t)
    \/ \E t \in {"life", "loop", "r1"} : CuesReply(t)
    \/ \E t \in {"loop", "r1"} \cup TimerIds : SendDone(t)
    \/ EnableCall("r1")
    \/ DisableCall("r1")
    \/ \E i \in TimerIds : TimerStart(i)
    \/ \E i \in TimerIds : TimerFire(i)
    \/ Connect("v1")
    \/ WsAccepted("v1")
    \/ WsInitSent("v1")
    \/ WsLoopSent("v1")
    \/ WsWake("v1")
    \/ ViewerDrop("v1")
    \/ Tick(AUTO_DISABLE_DELAY)

Spec == Init /\ [][NextScheduler]_vars

\* The fetch cycles of enable_polling and of polling_loop over two
\* timelines, with the same actions as the polling scheduler.
InitCycle == InitProgram /\ engine = "pair"

SpecCycle == InitCycle /\ [][NextScheduler]_vars

\* The two cadences of polling_loop: the loop and one enable(), against a
\* clock that moves in steps of five seconds.
InitPace == InitProgram /\ engine = "pair"

NextPace ==
    \/ LifespanStart
    \/ LoopStart
    \/ LoopWake
    \/ \E t \in {"life", "loop", "r1"} : ProjectReply(t)
    \/ \E t \in {"life", "loop", "r1"} : TimelinesReply(t)
    \/ \E t \in {"life", "loop", "r1"} : InfoReply(t)
    \/ \E t \in {"life", "loop", "r1"} : CuesReply(t)
    \/ EnableCall("r1")
    \/ \E i \in TimerIds : TimerStart(i)
    \/ Pace

SpecPace == InitPace /\ [][NextPace]_vars

\* Every coroutine that takes data_lock: the loop, the control requests, the
\* state query and force_update one at a time, the auto-disable tasks and
\* one viewer.
InitLock == InitProgram /\ engine = "plain"

NextLock ==
    \/ LifespanStart
    \/ LoopStart
    \/ LoopWake
    \/ \E t \in {"life", "loop", "r1"} : ProjectReply(t)
    \/ \E t \in {"life", "loop", "r1"} : TimelinesReply(t)
    \/ \E t \in {"life", "loop", "r1"} : InfoReply(t)
    \/ \E t \in {"life", "loop", "r1"} : CuesReply(t)
    \/ \E t \in {"loop", "r1"} \cup TimerIds : SendDone(t)
    \/ EnableCall("r1")
    \/ DisableCall("r1")
    \/ ForceUpdateCall("r1")
    \/ StateCall("r1")
    \/ \E i \in TimerIds : TimerStart(i)
    \/ \E i \in TimerIds : TimerFire(i)
    \/ Connect("v1")
    \/ WsAccepted("v1")
    \/ WsInitSent("v1")
    \/ WsLoopSent("v1")
    \/ WsWake("v1")
    \/ Tick(AUTO_DISABLE_DELAY)

SpecLock == InitLock /\ [][NextLock]_vars

\* Two control requests side by side: enable() and disable() called while
\* another enable() or disable() is suspended in its fetch cycle or in a
\* broadcast to a viewer.
InitControl == InitProgram /\ engine = "plain"

NextControl ==
    \/ LifespanStart
    \/ \E t \in {"life"} \cup ReqIds : ProjectReply(t)
    \/ \E t \in {"life"} \cup ReqIds : TimelinesReply(t)
    \/ \E t \in {"life"} \cup ReqIds : InfoReply(t)
    \/ \E t \in {"life"} \cup ReqIds : CuesReply(t)
    \/ \E t \in ReqIds : SendDone(t)
    \/ \E r \in ReqIds : EnableCall(r)
    \/ \E r \in ReqIds : DisableCall(r)
    \/ Connect("v1")
    \/ WsAccepted("v1")
    \/ WsInitSent("v1")

SpecControl == InitControl /\ [][NextControl]_vars

\* The polling loop ending and being started again: the loop, whose
\* timeline call can raise, against enable() and disable() called side by
\* side.
InitLoops == InitProgram /\ engine = "restart"

NextLoops ==
    \/ LifespanStart
    \/ LoopStart
    \/ LoopWake
    \/ \E t \in {"life"} \cup LoopIds \cup ReqIds : ProjectReply(t)
    \/ \E t \in {"life"} \cup LoopIds \cup ReqIds : TimelinesReply(t)
    \/ \E t \in {"life"} \cup LoopIds \cup ReqIds : InfoReply(t)
    \/ \E t \in {"life"} \cup LoopIds \cup ReqIds : CuesReply(t)
    \/ \E r \in ReqIds : EnableCall(r)
    \/ \E r \in ReqIds : DisableCall(r)

SpecLoops == InitLoops /\ [][NextLoops]_vars

\* The broadcast hub: two viewers that come and go, with the broadcasts of
\* enable, disable and the auto-disable task; the polling loop is not run.
InitHub == InitProgram /\ engine = "steady"

NextHub ==
    \/ LifespanStart
    \/ \E t \in {"life", "r1"} : ProjectReply(t)
    \/ \E t \in {"life", "r1"} : TimelinesReply(t)
    \/ \E t \in {"life", "r1"} : InfoReply(t)
    \/ \E t \in {"life", "r1"} : CuesReply(t)
    \/ \E t \in {"r1"} \cup TimerIds : SendDone(t)
    \/ EnableCall("r1")
    \/ DisableCall("r1")
    \/ \E i \in TimerIds : TimerStart(i)
    \/ \E i \in TimerIds : TimerFire(i)
    \/ \E v \in Viewers : Connect(v)
    \/ \E v \in Viewers : WsAccepted(v)
    \/ \E v \in Viewers : WsInitSent(v)
    \/ \E v \in Viewers : WsLoopSent(v)
    \/ \E v \in Viewers : WsWake(v)
    \/ \E v \in Viewers : ViewerDrop(v)
    \/ Tick(AUTO_DISABLE_DELAY)

SpecHub == InitHub /\ [][NextHub]_vars

\* The data fetchers: the fetch cycle of lifespan and of force_update, one
\* at a time, against every reply of the engine.
InitFetch == InitProgram /\ engine = "shapes"

NextFetch ==
    \/ LifespanStart
    \/ \E t \in {"life", "r1"} : ProjectReply(t)
    \/ \E t \in {"life", "r1"} : TimelinesReply(t)
    \/ \E t \in {"life", "r1"} : InfoReply(t)
    \/ \E t \in {"life", "r1"} : CuesReply(t)
    \/ ForceUpdateCall("r1")

SpecFetch == InitFetch /\ [][NextFetch]_vars

\* The request ids: the loop, an enable() and a force_update issue engine
\* calls side by side while request_id is below MaxIssued.
InitIds == InitProgram /\ engine = "ids"

\* request_id can still move on.
IdsLeft == request_id < MaxIssued

NextIds ==
    \/ IdsLeft /\ LifespanStart
    \/ IdsLeft /\ LoopStart
    \/ IdsLeft /\ LoopWake
    \/ IdsLeft /\ \E t \in {"life", "loop"} \cup ReqIds : ProjectReply(t)
    \/ IdsLeft /\ \E t \in {"life", "loop"} \cup ReqIds : TimelinesReply(t)
    \/ IdsLeft /\ \E t \in {"life", "loop"} \cup ReqIds : InfoReply(t)
    \/ IdsLeft /\ \E t \in {"life", "loop"} \cup ReqIds : CuesReply(t)
    \/ IdsLeft /\ EnableCall("r1")
    \/ IdsLeft /\ ForceUpdateCall("r2")
    \/ IdsLeft /\ \E i \in TimerIds : TimerStart(i)

SpecIds == InitIds /\ [][NextIds]_vars

\* Two fetch cycles at a time: the force_update requests r1 and r2, against
\* an engine whose timeline list changes.
InitStale == InitProgram /\ engine = "churn"

NextStale ==
    \/ LifespanStart
    \/ \E t \in {"life"} \cup ReqIds : ProjectReply(t)
    \/ \E t \in {"life"} \cup ReqIds : TimelinesReply(t)
    \/ \E t \in {"life"} \cup ReqIds : InfoReply(t)
    \/ \E t \in {"life"} \cup ReqIds : CuesReply(t)
    \/ \E r \in ReqIds : ForceUpdateCall(r)

SpecStale == InitStale /\ [][NextStale]_vars

\* The protocol client: calls of send_json, one after the other, followed on
\* the wire.
InitClient == InitProgram /\ engine = "steady"

NextClient ==
    \/ ClientCall
    \/ ClientConnected
    \/ ClientDrained
    \/ ClientReceives
    \/ ClientTimeout
    \/ ClientReadFails
    \/ ClientClosed

SpecClient == InitClient /\ [][NextClient]_vars

\* The parser and the cue conversion: one call, on any of the inputs.
InitParse == InitShared /\ engine = "steady" /\ probe \in ProbeCalls

NextParse ==
    \/ ParseReturn
    \/ StoreReturn

SpecParse == InitParse /\ [][NextParse]_vars

\* ------------------------------------------------------------------------
\* Properties of the polling scheduler (Spec)
\* ------------------------------------------------------------------------
\* An auto-disable task that has not fired yet.
TimerSleeping(i) ==
    tasks[i].kind = "timer" /\ tasks[i].pc \in {"start", "w_timer"}

\* The sleep of auto-disable task i ends in this step (it is not cancelled).
TimerFires(i) ==
    tasks[i].pc = "w_timer" /\ tasks'[i].pc \notin {"w_timer", "cancelled"}

\* C1: while polling is Enabled the auto-disable task of the enable() that
\* enabled it is pending, no other is, and it cannot fire before 6 hours
\* have passed since that enable(); when it fires, polling becomes
\* enabled=false, enabled_at=null, auto_disable_at=null, and that polling
\* state is what the task then broadcasts to the viewers connected.
C1_AutoDisableFires ==
    /\ [](polling.enabled =>
            /\ auto_disable_task # None
            /\ \A i \in TimerIds : TimerSleeping(i) <=> auto_disable_task = Some(i))
    /\ [][\A i \in TimerIds : TimerFires(i) =>
            /\ polling.enabled
            /\ now >= polling.enabled_at[1] + AUTO_DISABLE_DELAY
            /\ polling' = PollingOff
            /\ IF connected_clients = {}
               THEN tasks'[i].pc = "done"
               ELSE /\ tasks'[i].pc = "w_send_p"
                    /\ tasks'[i].text = PollingPayload(PollingOff)
                    /\ tasks'[i].targets = CopyOf(connected_clients)]_vars

\* The auto-disable task has fired six hours after the enable() and is
\* sending the disabled polling state to a viewer.
C1_Witness ==
    \E i \in TimerIds :
        /\ tasks[i].kind = "timer"
        /\ tasks[i].pc = "w_send_p"
        /\ tasks[i].text = PollingPayload(PollingOff)
        /\ polling = PollingOff
        /\ now >= AUTO_DISABLE_DELAY

\* C2: an enable() that finds polling Enabled changes nothing: the polling
\* state, the snapshot, the viewer set, request_id (no fetch), the
\* auto-disable task and every other task (no timer cancelled or started, no
\* broadcast) stay as they are, exactly one auto-disable task is pending
\* afterwards, and the call returns "already_enabled" with the polling state.
C2_EnableIdempotent ==
    [][\A r \in ReqIds : (polling.enabled /\ EnableCall(r)) =>
          /\ UNCHANGED <<polling, timelines, status, connected_clients,
                         request_id, auto_disable_task>>
          /\ \A t \in TaskIds \ {r} : tasks'[t] = tasks[t]
          /\ Cardinality({i \in TimerIds : TimerSleeping(i)'}) = 1
          /\ tasks'[r].pc = "done"
          /\ tasks'[r].resp = [status |-> "already_enabled", polling |-> polling]]_vars

\* An enable() has returned "already_enabled" while polling is Enabled and
\* its auto-disable task pending.
C2_Witness ==
    \E r \in ReqIds :
        /\ tasks[r].kind = "enable"
        /\ tasks[r].resp.status = "already_enabled"
        /\ polling.enabled
        /\ auto_disable_task # None
        /\ TimerSleeping(auto_disable_task[1])

\* C3: a disable() that finds polling Disabled changes nothing: the polling
\* state, the snapshot's timelines and status, the viewer set, the
\* auto-disable task and every other task stay as they are, nothing is
\* fetched or broadcast, and the call returns "already_disabled".
C3_DisableNoOp ==
    [][\A r \in ReqIds : (~polling.enabled /\ DisableCall(r)) =>
          /\ UNCHANGED <<polling, timelines, status, connected_clients,
                         request_id, auto_disable_task>>
          /\ \A t \in TaskIds \ {r} : tasks'[t] = tasks[t]
          /\ tasks'[r].pc = "done"
          /\ tasks'[r].resp = [status |-> "already_disabled", polling |-> polling]]_vars

\* A disable() has returned "already_disabled" with a viewer connected, which
\* a broadcast would have been sent to.
C3_Witness ==
    \E r \in ReqIds :
        /\ tasks[r].kind = "disable"
        /\ tasks[r].resp.status = "already_disabled"
        /\ ~polling.enabled
        /\ connected_clients # {}

\* The cues of a timelines mapping, as <<timeline handle, cue key, value>>.
CuesIn(tls) ==
    {<<tls[i][1], tls[i][2].cues[j][1], tls[i][2].cues[j][2]>> :
        <<i, j>> \in {p \in (1..Len(tls)) \X (1..3) : p[2] <= Len(tls[p[1]][2].cues)}}

\* A payload has one record for each cue of tls that is not filtered out, and
\* no other record.
PayloadMatches(payload, tls) ==
    /\ \A c \in CuesIn(tls) :
          Cardinality({k \in 1..Len(payload.countdowns) :
                          payload.countdowns[k].id = <<c[1], c[2]>>})
          = IF c[3].original_countdown_ms >= 0 THEN 1 ELSE 0
    /\ \A k \in 1..Len(payload.countdowns) :
          \E c \in CuesIn(tls) : payload.countdowns[k].id = <<c[1], c[2]>>

\* A broadcast_update builds its payload in this step.
BuildsPayload(t) ==
    /\ tasks'[t].pc = "w_send_u"
    /\ tasks[t].pc # "w_send_u"

\* C4: the payload buildCountdownPayload makes of any snapshot the program
\* gets into (the payload a viewer is sent first, and on every turn of its
\* own loop), and the payload every broadcast_update sends, has exactly one
\* record for each cue with original_countdown_ms >= 0 and none for a cue
\* with original_countdown_ms < 0, whether the cue's countdown was replaced
\* by its time field or set to zero.
C4_PayloadFiltersPastCues ==
    /\ [](~PayloadRaises(timelines) =>
            PayloadMatches(buildCountdownPayload(timelines, ProjectNameOf(status),
                                                 polling), timelines))
    /\ [][\A t \in TaskIds : BuildsPayload(t) =>
            /\ tasks'[t].text = buildCountdownPayload(timelines', ProjectNameOf(status'),
                                                      polling')
            /\ PayloadMatches(tasks'[t].text, timelines')]_vars

\* A broadcast is sending a payload of one record while the snapshot holds
\* three cues: one ahead, one past whose countdown was replaced by its time
\* field, one past whose countdown was set to zero.
C4_Witness ==
    \E t \in TaskIds :
        /\ tasks[t].pc = "w_send_u"
        /\ Len(tasks[t].text.countdowns) = 1
        /\ tasks[t].text = buildCountdownPayload(timelines, ProjectNameOf(status), polling)
        /\ Cardinality(CuesIn(timelines)) = 3
        /\ \E c \in CuesIn(timelines) :
              c[3].original_countdown_ms < 0 /\ c[3].countdown.totalMs > 0
        /\ \E c \in CuesIn(timelines) :
              c[3].original_countdown_ms < 0 /\ c[3].countdown.totalMs = 0
        /\ \E c \in CuesIn(timelines) : c[3].original_countdown_ms >= 0

\* C10: whenever polling is Enabled the polling loop is running: its task
\* has been started and has not ended.
C10_LoopRunsWhileEnabled ==
    polling.enabled => tasks["loop"].pc \notin Finished \cup {"free"}

\* ------------------------------------------------------------------------
\* Properties of the broadcast hub (SpecHub)
\* ------------------------------------------------------------------------
Sending == {"w_send_p", "w_send_u"}

\* The broadcast task t is suspended in ends in this step: the step is one of
\* t and is not the move from one send to the next.
BroadcastEnds(t) ==
    /\ tasks[t].pc \in Sending
    /\ tasks'[t] # tasks[t]
    /\ ~(/\ tasks'[t].pc = tasks[t].pc
         /\ tasks'[t].targets = Tail(tasks[t].targets)
         /\ tasks'[t].targets # <<>>)

\* The viewer of the send in flight, if that send fails.
FailsNow(t) ==
    IF Head(tasks[t].targets) \in alive THEN {} ELSE {Head(tasks[t].targets)}

\* C5: a broadcast ends only when the send to the last viewer of its copy
\* of the viewer set has returned or raised, so that every viewer of the
\* copy was attempted, and in ending it takes out of the viewer set exactly
\* the viewers whose send failed, whatever joined or left the set meanwhile.
C5_BroadcastReachesAll ==
    [][\A t \in TaskIds : BroadcastEnds(t) =>
          /\ Len(tasks[t].targets) = 1
          /\ tasks'[t].pc # "cancelled"
          /\ connected_clients' =
                 connected_clients \ (tasks[t].to_remove \cup FailsNow(t))]_vars

\* ------------------------------------------------------------------------
\* Properties of the data fetchers (SpecFetch)
\* ------------------------------------------------------------------------
\* The engine call task t is suspended in fails in this step, and send_json
\* returns {}.
ProjectCallFails(t) ==
    /\ tasks[t].pc = "w_project"
    /\ \E f \in CallFailures :
          Resume(project_reply(State, t, send_json(Failed(f))), t)

TimelinesCallFails(t) ==
    /\ tasks[t].pc = "w_timelines"
    /\ \E f \in CallFailures :
          Resume(timelines_reply(State, t, send_json(Failed(f))), t)

CuesCallTimesOut(t) ==
    /\ tasks[t].pc = "w_cues"
    /\ Resume(cues_reply(State, t, send_json(Failed("timeout"))), t)

C11_FirstPayloadBeforeBroadcasts ==
    \A t \in TaskIds : tasks[t].pc \in Sending =>
        \A k \in 1..Len(tasks[t].targets) :
            tasks[tasks[t].targets[k]].pc # "w_init"

\* ------------------------------------------------------------------------
\* Properties of the protocol client's connection (SpecClient)
\* ------------------------------------------------------------------------
\* C12: when a call of the protocol client has returned, the connection it
\* opened has been closed, whatever the outcome of the call.
C12_ConnectionClosedOnReturn ==
    call.pc = "returned" => call.writer # "open"

\* ------------------------------------------------------------------------
\* Properties of the countdown parser (SpecParse)
\* ------------------------------------------------------------------------
\* The numbers that the numeric components of the texts stand for.
NumberOf ==
    (<<"0">> :> 0) @@ (<<"5">> :> 5) @@ (<<"3", "0">> :> 30)
    @@ (<<"9", "6", "9">> :> 969) @@ (<<"0", "0">> :> 0)
    @@ (<<"0", "1">> :> 1) @@ (<<"0", "2">> :> 2) @@ (<<"0", "3">> :> 3)
    @@ (<<"0", "5">> :> 5)

\* "[-]H:M:S:F" with four non-negative integers.
WellFormed(sign, parts) ==
    /\ sign \in {<<>>, <<"-">>}
    /\ Len(parts) = 4
    /\ \A i \in 1..4 : parts[i] \in DOMAIN NumberOf

Signed(sign, n) == IF sign = <<"-">> THEN -n ELSE n

\* H*3,600,000 + M*60,000 + S*1,000 + floor(F*1000/60).
ExactMs(parts) ==
    NumberOf[parts[1]] * 3600000 + NumberOf[parts[2]] * 60000
    + NumberOf[parts[3]] * 1000 + (NumberOf[parts[4]] * 1000) \div 60

\* C15: for a well-formed "[-]H:M:S:F" the parser returns minutes, seconds
\* and frames as written, hours and totalMs negated exactly when the text
\* starts with "-", and totalMs of magnitude
\* H*3,600,000 + M*60,000 + S*1,000 + floor(F*1000/60); so totalMs <= 0 for a
\* text that starts with "-" and >= 0 otherwise, "01:02:03:30" gives
\* 3,723,500 and "-00:00:05:00" gives hours 0 and totalMs -5000.
C15_ParseWellFormed ==
    (probe.op = "parse" /\ probe.pc = "returned"
        /\ WellFormed(probe.sign, probe.parts)) =>
        /\ ~probe.parsed.raised
        /\ probe.parsed.cd.minutes = NumberOf[probe.parts[2]]
        /\ probe.parsed.cd.seconds = NumberOf[probe.parts[3]]
        /\ probe.parsed.cd.frames = NumberOf[probe.parts[4]]
        /\ probe.parsed.cd.hours = Signed(probe.sign, NumberOf[probe.parts[1]])
        /\ probe.parsed.cd.totalMs = Signed(probe.sign, ExactMs(probe.parts))
        /\ probe.sign = <<"-">> => probe.parsed.cd.totalMs <= 0
        /\ probe.sign = <<>> => probe.parsed.cd.totalMs >= 0
        /\ (probe.sign = <<>> /\ probe.parts = ExampleAhead) =>
              probe.parsed.cd.totalMs = 3723500
        /\ (probe.sign = <<"-">> /\ probe.parts = ExamplePast) =>
              probe.parsed.cd.hours = 0 /\ probe.parsed.cd.totalMs = -5000

\* An integer as int() reads it from a component without blanks: digits,
\* with at most one sign in front.
IsIntegerText(c) ==
    \/ c \in DOMAIN NumberOf
    \/ c # <<>> /\ Head(c) = "-" /\ Tail(c) \in DOMAIN NumberOf

\* The text splits on ":" into exactly four components that are integers.
FourIntegers(sign, parts) ==
    /\ Len(parts) = 4
    /\ IsIntegerText(sign \o parts[1])
    /\ \A i \in 2..4 : IsIntegerText(parts[i])

\* C16: the parser does not raise, and it returns the zero countdown for the
\* empty text, for a text without ":" and for a text that does not split on
\* ":" into exactly four integers.
C16_ParseZeroOnMalformed ==
    (probe.op = "parse" /\ probe.pc = "returned"
        /\ ~FourIntegers(probe.sign, probe.parts)) =>
        /\ ~probe.parsed.raised
        /\ probe.parsed.cd = ZeroCountdown

\* ------------------------------------------------------------------------
\* Properties of the cue conversion (SpecParse)
\* ------------------------------------------------------------------------
\* A cue record has been converted.
Stored == probe.op = "store" /\ probe.pc = "returned"

\* The cue's countdown and time members as the parser reads them.
ParsedCountdown == parse_countdown_string(probe.arg.countdown).cd
ParsedTime == parse_countdown_string(probe.arg.time).cd

OtherFieldsKept ==
    /\ probe.stored.val.name = probe.arg.name
    /\ probe.stored.val.handle = probe.arg.handle
    /\ probe.stored.val.operation = probe.arg.operation
    /\ probe.stored.val.note = probe.arg.note
    /\ probe.stored.val.time = probe.arg.time

\* C13: a cue whose countdown parses to a negative totalMs and whose time is
\* absent, empty or parses to a negative totalMs is stored with a countdown
\* of hours, minutes, seconds, frames and totalMs 0, with its other fields
\* kept and with original_countdown_ms the negative value as parsed.
C13_ClampedWithoutUsableTime ==
    (/\ Stored
     /\ ParsedCountdown.totalMs < 0
     /\ ~Truthy(probe.arg.time) \/ ParsedTime.totalMs < 0) =>
        /\ ~probe.stored.raised
        /\ probe.stored.val.countdown.hours = 0
        /\ probe.stored.val.countdown.minutes = 0
        /\ probe.stored.val.countdown.seconds = 0
        /\ probe.stored.val.countdown.frames = 0
        /\ probe.stored.val.countdown.totalMs = 0
        /\ OtherFieldsKept
        /\ probe.stored.val.original_countdown_ms = ParsedCountdown.totalMs
        /\ probe.stored.val.original_countdown_ms < 0

\* A cue five seconds past with no time member has been stored clamped.
C13_Witness ==
    /\ Stored
    /\ probe.arg.countdown = Str(MinusFiveSeconds)
    /\ probe.arg.time = PyNone
    /\ probe.stored.val.countdown.totalMs = 0
    /\ probe.stored.val.original_countdown_ms = -5000

\* C14: a cue whose countdown parses to a negative totalMs and whose time
\* parses to a totalMs >= 0 is stored with the hours, minutes, seconds,
\* frames and totalMs of the parsed time and with the countdown text as raw;
\* original_countdown_ms is the countdown's totalMs as parsed and
\* original_time_ms the time's.  A cue whose countdown parses to a totalMs
\* >= 0 is stored with the countdown as parsed, and with original_time_ms
\* null when it has no time member.
C14_TimeSubstituted ==
    /\ (/\ Stored
        /\ ParsedCountdown.totalMs < 0
        /\ Truthy(probe.arg.time)
        /\ ParsedTime.totalMs >= 0) =>
           /\ ~probe.stored.raised
           /\ probe.stored.val.countdown.hours = ParsedTime.hours
           /\ probe.stored.val.countdown.minutes = ParsedTime.minutes
           /\ probe.stored.val.countdown.seconds = ParsedTime.seconds
           /\ probe.stored.val.countdown.frames = ParsedTime.frames
           /\ probe.stored.val.countdown.totalMs = ParsedTime.totalMs
           /\ probe.stored.val.countdown.raw = probe.arg.countdown.s
           /\ probe.stored.val.original_countdown_ms = ParsedCountdown.totalMs
           /\ probe.stored.val.original_time_ms = Some(ParsedTime.totalMs)
    /\ (Stored /\ ParsedCountdown.totalMs >= 0) =>
           /\ ~probe.stored.raised
           /\ probe.stored.val.countdown = ParsedCountdown
           /\ probe.stored.val.original_countdown_ms = ParsedCountdown.totalMs
           /\ probe.arg.time = PyNone =>
                 probe.stored.val.original_time_ms = None

\* A cue five seconds past whose time is 1:2:3:30 has been stored with the
\* time's values.
C14_Witness ==
    /\ Stored
    /\ probe.arg.countdown = Str(MinusFiveSeconds)
    /\ probe.arg.time = Str(OneTwoThreeThirty)
    /\ probe.stored.val.countdown.totalMs = 3723500
    /\ probe.stored.val.countdown.raw = MinusFiveSeconds
    /\ probe.stored.val.original_countdown_ms = -5000
    /\ probe.stored.val.original_time_ms = Some(3723500)

\* ------------------------------------------------------------------------
\* Properties of the fetch cycles (SpecCycle)
\* ------------------------------------------------------------------------
\* The calls of one fetch cycle over the timelines hs, in order: the
\* timeline list, the info of every handle, the cues of every handle.
InfoCalls(hs) == [i \in 1..Len(hs) |-> <<"info", hs[i]>>]
CueCalls(hs) == [i \in 1..Len(hs) |-> <<"cues", hs[i]>>]
ListAndCues(hs) == <<<<"timelines", 0>>>> \o InfoCalls(hs) \o CueCalls(hs)

\* Everything an enable() that enables calls before it returns.
EnableLog ==
    <<<<"project", 0>>>> \o ListAndCues(PairHandles)
    \o <<<<"polling_state", 0>>, <<"update", 0>>>>

IsPrefix(s, u) == Len(s) <= Len(u) /\ SubSeq(u, 1, Len(s)) = s

\* The await a coroutine is suspended in after the call it logged last.
WaitOf(event) ==
    CASE event[1] = "project" -> "w_project"
      [] event[1] = "timelines" -> "w_timelines"
      [] event[1] = "info" -> "w_info"
      [] event[1] = "cues" -> "w_cues"
      [] event[1] = "polling_state" -> "w_send_p"
      [] OTHER -> "w_send_u"

\* C17: an enable() that finds polling Disabled sets enabled, enabled_at =
\* now and auto_disable_at = now + 6 h and arms a new auto-disable timer in
\* the one step that runs up to its first await; before it returns it makes
\* exactly one fetch cycle, in the order project name, timeline list, cues
\* of every handle of the refreshed list, and then the polling-state
\* broadcast followed by the snapshot broadcast.
C17_EnableArmsThenFetches ==
    /\ [][\A r \in ReqIds : (~polling.enabled /\ EnableCall(r)) =>
            /\ polling' = PollingOn(now)
            /\ \E i \in TimerIds :
                  /\ ~TimerSleeping(i)
                  /\ tasks'[i] = NewTask("timer", "start")
                  /\ auto_disable_task' = Some(i)
            /\ Cardinality({i \in TimerIds : TimerSleeping(i)'}) = 1
            /\ tasks'[r].pc = "w_project"
            /\ tasks'[r].log = <<<<"project", 0>>>>]_vars
    /\ [](\A r \in ReqIds : tasks[r].kind = "enable" =>
            /\ tasks[r].pc \in {"w_project", "w_timelines", "w_info", "w_cues",
                                "w_send_p", "w_send_u", "done"}
            /\ tasks[r].pc # "done" =>
                  /\ tasks[r].log # <<>>
                  /\ IsPrefix(tasks[r].log, EnableLog)
                  /\ tasks[r].pc = WaitOf(tasks[r].log[Len(tasks[r].log)])
            /\ (tasks[r].pc = "done" /\ tasks[r].resp.status = "enabled") =>
                  tasks[r].log = EnableLog)

\* An enable() has returned "enabled" after its fetch cycle and its two
\* broadcasts, with a viewer connected.
C17_Witness ==
    \E r \in ReqIds :
        /\ tasks[r].kind = "enable"
        /\ tasks[r].pc = "done"
        /\ tasks[r].resp.status = "enabled"
        /\ tasks[r].log = EnableLog
        /\ connected_clients # {}

\* Everything an iteration of polling_loop that found polling Enabled calls
\* before it sleeps: without the project name, or with it when
\* PROJECT_TIMELINE_INTERVAL seconds have passed.
LoopLogs ==
    {ListAndCues(PairHandles) \o <<<<"update", 0>>>>,
     <<<<"project", 0>>>> \o ListAndCues(PairHandles) \o <<<<"update", 0>>>>}

C18_CancelledTimerIsInert ==
    /\ [][\A i \in TimerIds : tasks[i].pc = "cancelled" =>
            \/ tasks'[i] = tasks[i]
            \/ tasks'[i] = NewTask("timer", "start")]_vars
    /\ [](\A i \in TimerIds :
            (tasks[i].kind = "timer" /\ auto_disable_task # Some(i)) =>
                tasks[i].pc \in {"cancelled", "done"})
    /\ [][(polling.enabled /\ ~polling'.enabled) =>
            \/ \E r \in ReqIds : tasks'[r].kind = "disable" /\ tasks'[r] # tasks[r]
            \/ \E i \in TimerIds :
                  /\ TimerFires(i)
                  /\ auto_disable_task = Some(i)
                  /\ now >= polling.enabled_at[1] + AUTO_DISABLE_DELAY]_vars

\* enable() was called while the auto-disable task that had fired was
\* suspended in its broadcast: that task is cancelled, polling is Enabled
\* again and a new task is pending.
C18_Witness ==
    \E i, j \in TimerIds :
        /\ tasks[i].pc = "cancelled"
        /\ tasks[i].log = <<<<"w_send_p", 0>>>>
        /\ polling = PollingOn(AUTO_DISABLE_DELAY)
        /\ TimerSleeping(j)
        /\ auto_disable_task = Some(j)

\* C19: at most one auto-disable task is pending (created, not fired, not
\* cancelled) at any time, and auto_disable_task names it.
C19_OneTimerArmed ==
    /\ Cardinality({i \in TimerIds : TimerSleeping(i)}) <= 1
    /\ \A i \in TimerIds : TimerSleeping(i) => auto_disable_task = Some(i)

\* One auto-disable task is pending and named, next to one that was
\* cancelled before it fired.
C19_Witness ==
    \E i, j \in TimerIds :
        /\ TimerSleeping(i)
        /\ auto_disable_task = Some(i)
        /\ tasks[j].pc = "cancelled"
        /\ tasks[j].log = <<>>

\* ------------------------------------------------------------------------
\* Properties of the two cadences of the polling loop (SpecPace)
\* ------------------------------------------------------------------------
\* The seconds since the reference of the slow refresh, as an iteration that
\* begins now computes them (line 372); the loop sets the reference to the
\* time it starts at (line 361).
SinceLastFetch ==
    IF tasks["loop"].pc = "start" THEN 0 ELSE now - tasks["loop"].last

\* The calls of the fast refresh: the timeline list, the cues of every
\* handle, the snapshot broadcast.
FastLog == ListAndCues(PairHandles) \o <<<<"update", 0>>>>

C22_LockFreeAtEveryAwait ==
    /\ data_lock = None
    /\ \A t \in TaskIds : tasks[t].pc # "blocked"
    /\ unlocked_writes = {}

\* The loop is suspended in a cue call, the auto-disable task in its sleep
\* and the viewer in a send, a state query has returned the Enabled polling
\* state, and the snapshot has been written: the lock is free.
C22_Witness ==
    /\ tasks["loop"].pc = "w_cues"
    /\ tasks["v1"].pc \in {"w_init", "w_hb"}
    /\ \E i \in TimerIds : tasks[i].pc = "w_timer"
    /\ tasks["r1"].kind = "state"
    /\ tasks["r1"].pc = "done"
    /\ tasks["r1"].resp.polling.enabled
    /\ timelines # <<>>
    /\ status # None
    /\ data_lock = None

\* ------------------------------------------------------------------------
\* Properties of concurrent fetch cycles (SpecStale)
\* ------------------------------------------------------------------------
\* The last info call of get_timelines is answered in this step, and
\* get_timelines of task t completes.
TimelinesFetched(t) ==
    /\ tasks[t].pc = "w_info"
    /\ Len(tasks[t].todo) = 1
    /\ tasks'[t] # tasks[t]

\* The cue call of task t is answered in this step.
CuesFetched(t) == tasks[t].pc = "w_cues" /\ tasks'[t] # tasks[t]

Handles(list) == {list[i] : i \in 1..Len(list)}

\* C23: when get_timelines completes, the handles of the snapshot's
\* timelines are exactly the handles the engine listed in that call, and
\* every timeline has no cues; nothing is written before that.  get_cues adds
\* and removes no timeline: it replaces the cues of its handle and leaves
\* every other timeline as it is, and when its handle is not in the snapshot
\* any more it leaves the snapshot as it is.
C23_TimelinesReplacedWholesale ==
    /\ [][\A t \in Fetchers : TimelinesFetched(t) =>
            /\ DictKeys(timelines') = Handles(tasks[t].listed)
            /\ Len(timelines') = Cardinality(Handles(tasks[t].listed))
            /\ \A i \in 1..Len(timelines') : timelines'[i][2].cues = <<>>]_vars
    /\ [][\A t \in Fetchers :
            (/\ tasks[t].pc \in {"w_timelines", "w_info"}
             /\ tasks'[t] # tasks[t]
             /\ tasks'[t].pc = "w_info") =>
                /\ timelines' = timelines
                /\ tasks[t].pc = "w_timelines" => tasks'[t].todo = tasks'[t].listed
                /\ tasks[t].pc = "w_info" => tasks'[t].listed = tasks[t].listed]_vars
    /\ [][\A t \in Fetchers : CuesFetched(t) =>
            /\ KeyList(timelines') = KeyList(timelines)
            /\ Head(tasks[t].todo) \notin DictKeys(timelines) =>
                  timelines' = timelines
            /\ \A h \in DictKeys(timelines) \ {Head(tasks[t].todo)} :
                  DictGet(timelines', h) = DictGet(timelines, h)
            /\ \A h \in DictKeys(timelines) :
                  DictGet(timelines', h).info = DictGet(timelines, h).info]_vars

\* A force_update that came in when the snapshot held timelines 2 and 1 with
\* their cues has replaced them by timeline 1 without cues, while the other
\* force_update still waits for the cues of timeline 2.
C23_Witness ==
    \E r, q \in ReqIds :
        /\ tasks[r].kind = "force"
        /\ tasks[r].pc = "w_cues"
        /\ tasks[r].todo = <<1>>
        /\ KeyList(tasks[r].before) = PairHandles
        /\ \A i \in 1..2 : tasks[r].before[i][2].cues # <<>>
        /\ KeyList(timelines) = <<1>>
        /\ timelines[1][2].cues = <<>>
        /\ tasks[q].pc = "w_cues"
        /\ Head(tasks[q].todo) = 2

\* ------------------------------------------------------------------------
\* Properties of the request ids (SpecIds)
\* ------------------------------------------------------------------------
EngineCalls == {"w_project", "w_timelines", "w_info", "w_cues"}

\* Coroutine t issues an engine call in this step: it runs and comes to rest
\* in send_json.
Issues(t) == tasks'[t] # tasks[t] /\ tasks'[t].pc \in EngineCalls

\* C24: request_id is never reset; every engine call, whatever becomes of
\* it, takes the value of request_id as its id and moves request_id on by
\* one, and nothing else moves it: so the ids of the calls of the loop, of
\* enable() and of force_update, interleaved in any way, are all different
\* and increase in the order the calls are issued.
C24_RequestIdsDistinct ==
    /\ [][\A t \in TaskIds : Issues(t) =>
            /\ tasks'[t].id = request_id
            /\ request_id' = request_id + 1]_vars
    /\ [][/\ request_id' >= request_id
          /\ request_id' # request_id => \E t \in TaskIds : Issues(t)]_vars
    /\ [](\A t \in TaskIds : tasks[t].id < request_id)
    /\ [](\A t, u \in TaskIds :
            (t # u /\ tasks[t].id # 0) => tasks[t].id # tasks[u].id)

\* The loop, an enable() and a force_update each wait for an engine call,
\* under three different ids, after a project-name call that failed.
C24_Witness ==
    /\ \A t \in {"loop", "r1", "r2"} : tasks[t].pc \in EngineCalls
    /\ tasks["r1"].kind = "enable"
    /\ tasks["r2"].kind = "force"
    /\ Cardinality({tasks[t].id : t \in {"loop", "r1", "r2"}}) = 3
    /\ status = Some("Unknown")


\* ------------------------------------------------------------------------
\* Startup (SpecCycle)
\* ------------------------------------------------------------------------
\* Everything lifespan calls before it yields.
StartupLog ==
    <<<<"project", 0>>>> \o ListAndCues(PairHandles) \o <<<<"update", 0>>>>

\* Some coroutine other than lifespan exists: the polling loop, an
\* auto-disable task, a control request or a viewer's handler.
Started(t) == tasks[t].pc # "free"

\* C25: when the process starts the snapshot is empty and polling is
\* Disabled; the polling loop is created in the step in which the last cue
\* list of the initial fetch cycle arrives, after the project name, the
\* timeline list and the cues of every timeline were fetched and stored; and
\* while lifespan has not yielded there is no control request and no viewer.
C25_InitialFetchBeforeServing ==
    /\ [](tasks["life"].pc = "start" =>
            /\ timelines = <<>>
            /\ status = None
            /\ polling = PollingOff
            /\ connected_clients = {}
            /\ \A t \in TaskIds \ {"life"} : ~Started(t))
    /\ [][(~Started("loop") /\ Started("loop")') =>
            /\ tasks["life"].pc = "w_cues"
            /\ Len(tasks["life"].todo) = 1
            /\ tasks'["life"].log = StartupLog
            /\ DictKeys(timelines') = Handles(PairHandles)
            /\ \A h \in Handles(PairHandles) : DictGet(timelines', h).cues # <<>>
            /\ status' # None]_vars
    /\ [](tasks["life"].pc # "serving" =>
            \A t \in TaskIds \ {"life", "loop"} : ~Started(t))
    /\ []((\E t \in TaskIds \ {"life"} : Started(t)) =>
            tasks["life"].log = StartupLog)

\* A viewer is connected and the loop runs, after a startup that fetched
\* the two timelines and their cues.
C25_Witness ==
    /\ "v1" \in connected_clients
    /\ tasks["loop"].pc = "w_sleep"
    /\ tasks["life"].pc = "serving"
    /\ tasks["life"].log = StartupLog
    /\ Len(timelines) = 2


\* ------------------------------------------------------------------------
\* The polling state (Spec)
\* ------------------------------------------------------------------------
\* The steps of the three operations that assign shared_data["polling"]:
\* an enable() or a disable() is called, or the sleep of an auto-disable
\* task ends.
PollingWriters ==
    \/ \E r \in ReqIds : EnableCall(r) \/ DisableCall(r)
    \/ \E i \in TimerIds : TimerFire(i)

\* C26: in every state, polling Disabled has enabled_at and auto_disable_at
\* null; polling Enabled has both set, auto_disable_at at least 6 hours after
\* enabled_at, and the task named by auto_disable_task still pending, its
\* sleep not ending before auto_disable_at; and the polling state changes
\* only in a step of enable(), of disable() or of the timer firing.
C26_PollingStateConsistent ==
    /\ [](~polling.enabled => polling.enabled_at = None /\ polling.auto_disable_at = None)
    /\ [](polling.enabled =>
            /\ polling.enabled_at # None
            /\ polling.auto_disable_at # None
            /\ polling.auto_disable_at[1] >= polling.enabled_at[1] + AUTO_DISABLE_DELAY
            /\ \E i \in TimerIds :
                  /\ auto_disable_task = Some(i)
                  /\ tasks[i].kind = "timer"
                  /\ tasks[i].pc \in {"start", "w_timer"}
                  /\ tasks[i].pc = "w_timer" => tasks[i].last >= polling.auto_disable_at[1])
    /\ [][polling' # polling => PollingWriters]_vars

\* Polling was enabled a second time, six hours or more after the start,
\* while the loop fetches: the timer of the second enable() is asleep.
C26_Witness ==
    /\ polling.enabled
    /\ polling.enabled_at[1] >= AUTO_DISABLE_DELAY
    /\ \E i \in TimerIds : auto_disable_task = Some(i) /\ tasks[i].pc = "w_timer"
    /\ tasks["loop"].pc \in {"w_timelines", "w_info", "w_cues"}


\* ------------------------------------------------------------------------
\* Payloads and fetch cycles (SpecHub)
\* ------------------------------------------------------------------------
\* Every timeline of the snapshot holds the cues of a get_cues that came
\* after the get_timelines that stored it: get_timelines stores a timeline
\* with no cues (line 278) and the engine of these runs always lists cues.
Populated(tls) == \A h \in DictKeys(tls) : DictGet(tls, h).cues # <<>>

\* Coroutine t builds a full-snapshot payload in this step: a viewer's
\* handler its first payload (line 552) or the payload of its 1-second turn
\* (line 582), any other coroutine the payload of broadcast_update
\* (line 190).
PayloadBuilt(t) ==
    \/ tasks[t].pc = "w_accept" /\ tasks'[t].pc = "w_init"
    \/ tasks[t].kind = "ws" /\ tasks[t].pc = "w_sleep" /\ tasks'[t].pc = "w_hb"
    \/ tasks[t].pc # "w_send_u" /\ tasks'[t].pc = "w_send_u"

\* C27: whenever a full-snapshot payload is built, every timeline of the
\* snapshot it is built from has the cues of a get_cues that completed after
\* the latest get_timelines.
C27_NoMidCyclePayload ==
    [][\A t \in TaskIds : PayloadBuilt(t) => Populated(timelines')]_vars


\* ------------------------------------------------------------------------
\* The loop after a disable (Spec)
\* ------------------------------------------------------------------------
\* Coroutine t begins a broadcast_update with at least one viewer to send to.
BeginsUpdate(t) == tasks[t].pc # "w_send_u" /\ tasks'[t].pc = "w_send_u"

\* C28: in a step that starts and ends with polling Disabled the polling
\* loop issues no engine call and begins no full-snapshot broadcast.
C28_LoopQuietWhenDisabled ==
    [][(~polling.enabled /\ ~polling'.enabled) =>
          ~Issues("loop") /\ ~BeginsUpdate("loop")]_vars


\* ------------------------------------------------------------------------
\* The responses of enable() and disable() (SpecControl)
\* ------------------------------------------------------------------------
\* C29: a response of enable() with status "enabled" carries a polling state
\* with enabled=true, and a response of disable() with status "disabled"
\* one with enabled=false.
C29_StatusMatchesPolling ==
    \A r \in ReqIds :
        /\ tasks[r].resp.status = "enabled" => tasks[r].resp.polling.enabled
        /\ tasks[r].resp.status = "disabled" => ~tasks[r].resp.polling.enabled


\* ------------------------------------------------------------------------
\* Stored countdowns and the payload (SpecParse)
\* ------------------------------------------------------------------------
\* C30: a cue get_cues has stored has a countdown with totalMs >= 0; every
\* record the payload builder makes of it carries the cue's
\* original_countdown_ms as totalMs; and the cue has no record exactly when
\* its stored countdown is not the one parsed from its countdown text, that
\* is, when it was replaced by the time field or set to zero.
C30_OnlyParsedCountdownsVisible ==
    (Stored /\ ~probe.stored.raised) =>
        /\ probe.stored.val.countdown.totalMs >= 0
        /\ \A i \in 1..Len(probe.records) :
              probe.records[i].totalMs = probe.stored.val.original_countdown_ms
        /\ Len(probe.records) <= 1
        /\ probe.records = <<>> <=>
              probe.stored.val.countdown.totalMs # probe.stored.val.original_countdown_ms
        /\ probe.records = <<>> <=> ParsedCountdown.totalMs < 0

\* A cue five seconds past whose countdown was replaced by its time
\* 1:2:3:30 is stored and has no record in the payload.
C30_Witness ==
    /\ Stored
    /\ probe.arg.countdown = Str(MinusFiveSeconds)
    /\ probe.arg.time = Str(OneTwoThreeThirty)
    /\ probe.stored.val.countdown.totalMs = 3723500
    /\ probe.records = <<>>


\* ------------------------------------------------------------------------
\* The instances of the polling loop (SpecLoops)
\* ------------------------------------------------------------------------
\* The polling loops that were created and have not ended.
RunningLoops == {l \in LoopIds : tasks[l].pc \notin Finished \cup {"free"}}

\* A polling loop is created in this step, in task object l.
LoopCreated(l) ==
    /\ tasks[l].pc \in Finished \cup {"free"}
    /\ tasks'[l].pc \notin Finished \cup {"free"}

\* C31: at most one polling loop is running at any time, and it is the one
\* polling_task names; a polling loop is created only in a step that begins
\* with none running: by lifespan at startup, when none was created before,
\* or by an enable() that finds polling Disabled.
C31_OneLoopInstance ==
    /\ [](Cardinality(RunningLoops) <= 1)
    /\ [](\A l \in RunningLoops : polling_task = Some(l))
    /\ [][\A l \in LoopIds : LoopCreated(l) =>
            /\ RunningLoops = {}
            /\ polling_task' = Some(l)
            /\ \/ /\ polling_task = None
                  /\ tasks["life"].pc \notin {"start", "serving"}
                  /\ tasks'["life"].pc = "serving"
               \/ /\ polling_task # None
                  /\ ~polling.enabled
                  /\ \E r \in ReqIds : EnableCall(r)]_vars

\* The second polling loop of the process fetches cues, the first having
\* ended, while an enable() is in its own fetch cycle.
C31_Witness ==
    /\ tasks["loop"].instance = 2
    /\ tasks["loop"].pc = "w_cues"
    /\ polling_task = Some("loop")
    /\ polling.enabled
    /\ \E r \in ReqIds : tasks[r].kind = "enable" /\ tasks[r].pc = "w_timelines"

====
